---------------------------- MODULE Spec2Model ----------------------------
(***************************************************************************)
(* A model of the tick-analysis core of quant_analysis.py (class           *)
(* QuantAnalysis): the scoring function, the order-flow ratio, the wash    *)
(* trade filter, the batch pipeline and the daily cache.                   *)
(*                                                                         *)
(* Numbers.  Python floats are modelled by exact fixed-point integers:     *)
(*   - a metric value x is held in hundredths (h = 100 * x);               *)
(*   - a score s is held in 1/600 points (600 * s), the smallest unit in   *)
(*     which every weight of _calculate_score_v8 is an integer;            *)
(*   - prices and price deltas are in cents, times in seconds.             *)
(* A float may also be NaN (numpy propagates it), so a float is a record   *)
(* [nan, v].                                                               *)
(***************************************************************************)
EXTENDS Integers, Sequences, FiniteSets, TLC

VARIABLES
    metrics,         \* the dict handed to _calculate_score_v8
    perf_counters,   \* self.perf_counters["calculate_score"], in clock ticks
    score_calls,     \* the values returned by the calls made so far, in order
    tick_df,         \* the series handed to analyze_trade_direction
    trade_direction, \* the dict it returned
    dir_done,        \* whether analyze_trade_direction has returned
    wash_in,         \* the tick_df handed to _filter_wash_trades (or None)
    wash_out,        \* what it returned: the clean series, the ratio, the flags
    wash_done,       \* whether _filter_wash_trades has returned
    symbols,             \* analyze_stocks: the codes of all_stocks, in order
    historical_metrics,  \* the symbols that have historical metrics
    batch_pc,            \* where analyze_stocks is
    tick_tasks,          \* the state of each get_tick_data future
    fetch_calls,         \* how often get_tick_data was started per symbol
    tick_seen,           \* the futures as_completed has yielded so far
    tick_data_results,   \* the results dict of get_tick_data_batch
    analysis_tasks,      \* the state of each analyze_stock_worker future
    analysis_seen,       \* the futures the analysis loop has consumed
    analysis_results,    \* the analysis_results dict, in insertion order
    final_stocks,        \* the list analyze_stocks returns
    today,               \* the calendar day (datetime.now)
    cache_file,          \* what is stored under cache_path
    cache_pass,          \* what the last pass read, fetched and returned
    standing,             \* the entries written today that no later write removed
    an_in,  \* the tick_df handed to the analyzers
    an_out,  \* what each analyzer called so far returned
    sink_calls,  \* the lists send_dingtalk_message was called with
    posted,  \* the lists of stocks posted to the webhook
    zt_file,  \* accumulated_zt_stocks.json: exists, stocks by code, last_update
    th_in,  \* the volumes handed to the rolling baseline
    th_out,  \* volume_mean and volume_std, row by row
    hy_in,  \* two raw series that differ in one record, and that record
    hy_out,  \* what the pipeline made of each of them
    td_in,  \* what the two tick providers answer for the symbol
    td_out,  \* get_tick_data: its position, the providers it called and what it returned
    td_clean,  \* what _filter_wash_trades made of the returned series
    perf_shared,  \* perf_counters[task_name] of the analyzer, with the time its finished calls reported
    log_workers,  \* each worker thread inside _log_performance
    mi_in,  \* the frame handed to analyze_microstructure (liquidity features)
    mi_out,  \* the liquidity features it returned, <<>> before the call
    rt_in,  \* the keyword arguments of a call of _retry: retries, base_delay, jitter
    rt  \* the call of _retry: its position, attempt, last_err, the calls of func and the sleeps so far

scoreVars == <<metrics, perf_counters, score_calls>>
dirVars == <<tick_df, trade_direction, dir_done>>
washVars == <<wash_in, wash_out, wash_done>>
batchVars == <<symbols, historical_metrics, batch_pc, tick_tasks, fetch_calls, tick_seen,
               tick_data_results, analysis_tasks, analysis_seen, analysis_results,
               final_stocks>>
cacheVars == <<today, cache_file, cache_pass, standing>>

anVars == <<an_in, an_out>>

sinkVars == <<sink_calls, posted>>

poolVars == <<zt_file>>

thVars == <<th_in, th_out>>

hyVars == <<hy_in, hy_out>>

tdVars == <<td_in, td_out, td_clean>>

logVars == <<perf_shared, log_workers>>

miVars == <<mi_in, mi_out>>

rtVars == <<rt_in, rt>>

vars == <<metrics, perf_counters, score_calls, tick_df, trade_direction, dir_done,
          wash_in, wash_out, wash_done, symbols, historical_metrics, batch_pc,
          tick_tasks, fetch_calls, tick_seen, tick_data_results, analysis_tasks,
          analysis_seen, analysis_results, final_stocks, today, cache_file, cache_pass,
          standing,
          an_in, an_out,
          sink_calls, posted,
          zt_file,
          th_in, th_out,
          hy_in, hy_out,
          td_in, td_out, td_clean,
          perf_shared, log_workers,
          mi_in, mi_out,
          rt_in, rt>>

---------------------------------------------------------------------------
(* Floats with NaN *)

NaN == [nan |-> TRUE, v |-> 0]
Num(x) == [nan |-> FALSE, v |-> x]

Min(a, b) == IF a < b THEN a ELSE b
Max(a, b) == IF a > b THEN a ELSE b
Abs(a) == IF a < 0 THEN -a ELSE a

\* np.clip(x, lo, hi): NaN stays NaN.
NpClip(x, lo, hi) == IF x.nan THEN NaN ELSE Num(Max(lo, Min(hi, x.v)))

\* x * k and k - x on floats.
Scale(x, k) == IF x.nan THEN NaN ELSE Num(x.v * k)
FAdd(a, b) == IF a.nan \/ b.nan THEN NaN ELSE Num(a.v + b.v)
FSub(a, b) == IF a.nan \/ b.nan THEN NaN ELSE Num(a.v - b.v)

\* Python's x > c and x < c: False when x is NaN.
FGt(x, c) == ~x.nan /\ x.v > c
FLt(x, c) == ~x.nan /\ x.v < c

---------------------------------------------------------------------------
(* _calculate_score_v8 *)

MetricKeys ==
    {"fund_flow_z_score", "super_flow_z_score", "flow_consistency",
     "net_buy_adv_ratio", "impact_atr_ratio", "excess_return",
     "momentum_ratio", "closing_ratio", "wash_trade_ratio", "pressure_ratio",
     "large_buy_ratio", "large_sell_ratio", "impact_asymmetry",
     "volume_trend", "price_reversal", "buy_concentration", "rsi"}

\* metrics.get(k, d)
Get(m, k, d) == IF k \in DOMAIN m THEN m[k] ELSE d

\* One score point is 600 units (6 per hundredth); the bounds of the final clip.
Point == 6 * 100
ScoreMin == -100 * Point
ScoreMax == 100 * Point

FundFlowScore(m) == NpClip(Scale(Get(m, "fund_flow_z_score", Num(0)), 120), -30 * Point, 30 * Point)
SuperFlowScore(m) == NpClip(Scale(Get(m, "super_flow_z_score", Num(0)), 60), -10 * Point, 10 * Point)
FlowConsistencyScore(m) == Scale(Get(m, "flow_consistency", Num(0)), 30)
NetBuyScore(m) == NpClip(Scale(Get(m, "net_buy_adv_ratio", Num(0)), 1200), -20 * Point, 20 * Point)
ImpactScore(m) ==
    NpClip(FSub(Num(15 * Point), Scale(Get(m, "impact_atr_ratio", Num(0)), 1800)),
           -15 * Point, 15 * Point)

\* A pressure term that starts at the edges of the band (a variant for C29).
PressureScoreOpenBand(m) ==
    LET p == Get(m, "pressure_ratio", Num(100))
    IN  IF FGt(p, 119) THEN Num(Min((p.v - 119) * 60, 10 * Point))
        ELSE IF FLt(p, 81) THEN Num(Max((p.v - 81) * 60, -10 * Point))
        ELSE Num(0)

PressureScore(m) ==
    LET p == Get(m, "pressure_ratio", Num(100))
    IN  IF FGt(p, 120) THEN Num(Min((p.v - 120) * 60, 10 * Point))
        ELSE IF FLt(p, 80) THEN Num(Max((p.v - 80) * 60, -10 * Point))
        ELSE Num(0)

LargeTradeScore(m) ==
    NpClip(Scale(FSub(Get(m, "large_buy_ratio", Num(0)), Get(m, "large_sell_ratio", Num(0))), 120),
           -10 * Point, 10 * Point)

MomentumScore(m) ==
    LET r == Get(m, "momentum_ratio", Num(0))
    IN  IF FGt(r, 60) THEN Num(Min((r.v - 60) * 150, 10 * Point))
        ELSE IF FLt(r, 0) THEN Num(-10 * Point)
        ELSE Num(0)

ClosingScore(m) ==
    LET c == Get(m, "closing_ratio", Num(0))
    IN  IF FGt(c, 20) THEN Num(Min((c.v - 20) * 100, 5 * Point))
        ELSE IF FLt(c, -20) THEN Num(-Min((Abs(c.v) - 20) * 100, 5 * Point))
        ELSE Num(0)

AlphaScore(m) == NpClip(Scale(Get(m, "excess_return", Num(0)), 15), -5 * Point, 5 * Point)
AsymmetryScore(m) == NpClip(Scale(Get(m, "impact_asymmetry", Num(0)), 600), -5 * Point, 5 * Point)
VolTrendScore(m) == NpClip(Scale(Get(m, "volume_trend", Num(0)), 300), -5 * Point, 5 * Point)
ReversalScore(m) == NpClip(Scale(Get(m, "price_reversal", Num(0)), 60), -5 * Point, 5 * Point)
ConcentrationScore(m) ==
    NpClip(Scale(FSub(Get(m, "buy_concentration", Num(0)), Num(20)), 120), -5 * Point, 5 * Point)

RsiScore(m) ==
    LET r == Get(m, "rsi", Num(5000))
    IN  IF FGt(r, 7000) THEN Num(-Min((r.v - 7000) * 2, 5 * Point))
        ELSE IF FLt(r, 3000) THEN Num(Min((3000 - r.v) * 2, 5 * Point))
        ELSE Num(0)

\* A penalty of 35 points per unit of ratio, at most 10 (a variant for C28).
WashTradePenaltyLow(m) == NpClip(Scale(Get(m, "wash_trade_ratio", Num(0)), 210), 0, 10 * Point)

WashTradePenalty(m) == NpClip(Scale(Get(m, "wash_trade_ratio", Num(0)), 300), 0, 15 * Point)

RECURSIVE FSum(_)
FSum(s) == IF s = <<>> THEN Num(0) ELSE FAdd(Head(s), FSum(Tail(s)))

TotalScore(m) ==
    FSub(FSum(<<FundFlowScore(m), SuperFlowScore(m), FlowConsistencyScore(m),
                NetBuyScore(m), ImpactScore(m), PressureScore(m), LargeTradeScore(m),
                MomentumScore(m), ClosingScore(m), AlphaScore(m), AsymmetryScore(m),
                VolTrendScore(m), ReversalScore(m), ConcentrationScore(m), RsiScore(m)>>),
         WashTradePenalty(m))

\* A scoring function that reads the analyzer's counters (a variant for C2).
CalculateScoreV8Stateful(m) ==
    NpClip(FAdd(TotalScore(m), Num(perf_counters * Point)), ScoreMin, ScoreMax)

\* The value returned: np.clip(total_score, -100, 100).
CalculateScoreV8(m) == NpClip(TotalScore(m), ScoreMin, ScoreMax)

---------------------------------------------------------------------------
(* The inputs of the scoring specification *)

MaxKeys == 2          \* at most this many keys are present in a metrics dict
MaxPerf == 2          \* the clock stops after this many ticks
Huge == 1000000       \* an extreme component value (10^4, in hundredths)

MetricValues == {NaN} \cup {Num(x) : x \in {-Huge, -50, 50, Huge}}

RECURSIVE KeySets(_)
KeySets(n) ==
    IF n = 0 THEN {{}}
    ELSE LET S == KeySets(n - 1) IN S \cup {K \cup {k} : K \in S, k \in MetricKeys}

MetricsInputs == UNION {[K -> MetricValues] : K \in KeySets(MaxKeys)}

\* _log_performance("calculate_score", task_start): the counter grows by the
\* elapsed time.
LogPerformance(counter, elapsed) == counter + elapsed

\* The variables of the other specifications, at rest.
DirIdle == tick_df = <<>> /\ trade_direction = <<>> /\ dir_done = FALSE
WashIdle == wash_in = <<>> /\ wash_out = <<>> /\ wash_done = FALSE
BatchIdle ==
    /\ symbols = <<>> /\ historical_metrics = {} /\ batch_pc = "idle"
    /\ tick_tasks = <<>> /\ fetch_calls = <<>> /\ tick_seen = {}
    /\ tick_data_results = {} /\ analysis_tasks = <<>> /\ analysis_seen = {}
    /\ analysis_results = <<>> /\ final_stocks = <<>>
CacheIdle ==
    /\ today = 0 /\ cache_file = <<>> /\ cache_pass = <<>> /\ standing = {}
AnIdle == an_in = <<>> /\ an_out = <<>>
SinkIdle == sink_calls = <<>> /\ posted = <<>>
PoolIdle == zt_file = [exists |-> FALSE, stocks |-> <<>>, last_update |-> 0]
ThIdle == th_in = <<>> /\ th_out = <<>>
HyIdle == hy_in = <<>> /\ hy_out = <<>>
TdIdle == td_in = <<>> /\ td_out = <<>> /\ td_clean = <<>>
LogIdle == perf_shared = <<>> /\ log_workers = <<>>
MiIdle == mi_in = <<>> /\ mi_out = <<>>
RtIdle == rt_in = <<>> /\ rt = <<>>

ScoreInit ==
    /\ metrics \in MetricsInputs
    /\ perf_counters = 0
    /\ score_calls = <<>>
    /\ DirIdle
    /\ WashIdle
    /\ BatchIdle
    /\ CacheIdle
    /\ AnIdle
    /\ SinkIdle
    /\ PoolIdle
    /\ ThIdle
    /\ HyIdle
    /\ TdIdle
    /\ LogIdle
    /\ MiIdle
    /\ RtIdle

\* One call of _calculate_score_v8(metrics), its _log_performance included.
ScoreCall ==
    /\ Len(score_calls) < 2
    /\ \E elapsed \in 0..1 :
         /\ perf_counters + elapsed <= MaxPerf
         /\ perf_counters' = LogPerformance(perf_counters, elapsed)
    /\ score_calls' = Append(score_calls, CalculateScoreV8(metrics))
    /\ UNCHANGED <<metrics, dirVars, washVars, batchVars, cacheVars, anVars, sinkVars, poolVars, thVars, hyVars, tdVars, logVars, miVars, rtVars>>

\* Any other task of the analyzer logging its own time between two calls.
OtherTaskLogs ==
    /\ perf_counters < MaxPerf
    /\ perf_counters' = LogPerformance(perf_counters, 1)
    /\ UNCHANGED <<metrics, score_calls, dirVars, washVars, batchVars, cacheVars, anVars, sinkVars, poolVars, thVars, hyVars, tdVars, logVars, miVars, rtVars>>

ScoreNext == ScoreCall \/ OtherTaskLogs

SpecScore == ScoreInit /\ [][ScoreNext]_vars

(* C1: every score returned by _calculate_score_v8 lies in the closed      *)
(* interval [-100, 100], whatever the metrics (extreme values, missing     *)
(* keys).  A NaN is in no interval.                                        *)
C1_ScoreInRange ==
    \A i \in 1..Len(score_calls) :
        /\ ~score_calls[i].nan
        /\ ScoreMin <= score_calls[i].v
        /\ score_calls[i].v <= ScoreMax

---------------------------------------------------------------------------
(* analyze_trade_direction: the buy/sell split *)

\* A tick record: its index label in the DataFrame, time (s), price (cents),
\* volume, side, price delta (cents).
Tick(idx, t, price, vol, side, delta) ==
    [idx |-> idx, t |-> t, price |-> price, vol |-> vol, side |-> side, delta |-> delta]

RECURSIVE SideVolumeCount(_, _)
\* The number of records of the side instead of their volume (a variant
\* for C12).
SideVolumeCount(df, side) ==
    IF df = <<>> THEN 0
    ELSE (IF Head(df).side = side THEN 1 ELSE 0) + SideVolumeCount(Tail(df), side)

RECURSIVE SideVolume(_, _)
\* tick_df.loc[tick_df['买卖盘性质'] == side, '成交量'].sum()
SideVolume(df, side) ==
    IF df = <<>> THEN 0
    ELSE (IF Head(df).side = side THEN Head(df).vol ELSE 0) + SideVolume(Tail(df), side)

\* A ratio num/den, kept as the pair; 0.5 is 1/2.
Ratio(num, den) == [num |-> num, den |-> den]
Half == Ratio(1, 2)

\* The buy volume over the sell volume (a variant for C3).
BuyToSellRatio(buy_volume, sell_volume) ==
    IF sell_volume > 0 THEN Ratio(buy_volume, sell_volume) ELSE Half

\* active_buy_ratio = buy_volume / total_volume if total_volume > 0 else 0.5
ActiveBuyRatio(buy_volume, sell_volume) ==
    IF buy_volume + sell_volume > 0 THEN Ratio(buy_volume, buy_volume + sell_volume) ELSE Half

\* The dict returned: {} for an empty series, else the features (those of
\* lines 735-743).
AnalyzeTradeDirection(df) ==
    IF df = <<>> THEN <<>>
    ELSE LET buy_volume == SideVolume(df, "Buy")
             sell_volume == SideVolume(df, "Sell")
         IN  [net_buy_volume |-> buy_volume - sell_volume,
              active_buy_ratio |-> ActiveBuyRatio(buy_volume, sell_volume)]

MaxDirLen == 3        \* the longest series handed to analyze_trade_direction
MaxDirVol == 2        \* the largest volume of one of its records

\* get_tick_data keeps the Buy and Sell records only; the function itself
\* accepts any side, and a series of neutral records has total volume 0.
DirSides == [vol : 1..MaxDirVol, side : {"Buy", "Sell", "Neutral"}]
DirInputs ==
    UNION {{[i \in 1..n |-> Tick(i, i, 1000, f[i].vol, f[i].side, 0)] : f \in [1..n -> DirSides]} :
           n \in 0..MaxDirLen}

ScoreIdle == metrics = <<>> /\ perf_counters = 0 /\ score_calls = <<>>

DirInit ==
    /\ tick_df \in DirInputs
    /\ trade_direction = <<>>
    /\ dir_done = FALSE
    /\ ScoreIdle
    /\ WashIdle
    /\ BatchIdle
    /\ CacheIdle
    /\ AnIdle
    /\ SinkIdle
    /\ PoolIdle
    /\ ThIdle
    /\ HyIdle
    /\ TdIdle
    /\ LogIdle
    /\ MiIdle
    /\ RtIdle

\* One call of analyze_trade_direction(tick_df).
DirCall ==
    /\ ~dir_done
    /\ trade_direction' = AnalyzeTradeDirection(tick_df)
    /\ dir_done' = TRUE
    /\ UNCHANGED <<tick_df, scoreVars, washVars, batchVars, cacheVars, anVars, sinkVars, poolVars, thVars, hyVars, tdVars, logVars, miVars, rtVars>>

DirNext == DirCall

SpecDirection == DirInit /\ [][DirNext]_vars

(* C3: for every series analyze_trade_direction analyses (a non-empty one), *)
(* active_buy_ratio is buy_volume / (buy_volume + sell_volume) and lies in *)
(* [0, 1] when the total volume is positive, and is exactly 0.5 when the   *)
(* total volume is 0.                                                      *)
C3_ActiveBuyRatio ==
    (dir_done /\ tick_df # <<>>) =>
        /\ "active_buy_ratio" \in DOMAIN trade_direction
        /\ LET r == trade_direction.active_buy_ratio
               buy == SideVolume(tick_df, "Buy")
               total == SideVolume(tick_df, "Buy") + SideVolume(tick_df, "Sell")
           IN  /\ r.den > 0
               /\ total > 0 => (r.num * total = buy * r.den /\ 0 <= r.num /\ r.num <= r.den)
               /\ total = 0 => 2 * r.num = r.den

\* A series with more buy than sell volume has been analysed.
C3_Witness ==
    /\ dir_done
    /\ Len(tick_df) = MaxDirLen
    /\ SideVolume(tick_df, "Sell") > 0
    /\ SideVolume(tick_df, "Buy") > SideVolume(tick_df, "Sell")
    /\ trade_direction.active_buy_ratio.num > 0

---------------------------------------------------------------------------
(* _filter_wash_trades *)

\* A DataFrame argument that may be None.
NoneDf == [isNone |-> TRUE, rows |-> <<>>]
Df(rows) == [isNone |-> FALSE, rows |-> rows]

MinRecords == 20      \* len(tick_df) < 20: no filtering
MaxWindow == 20       \* rolling_window = min(20, len(df) // 4)
MinPeriods == 5       \* rolling(..., min_periods=5)
PairMaxGap == 5       \* pd.Timedelta(seconds=5)
WindowLen == 6        \* df.iloc[i - 5:i + 1]
LongSeries == 10      \* if len(df) > 10

\* A window of MaxWindow rows whatever the length (a variant for C18).
FixedWindow(n) == MaxWindow

\* rolling_window = min(20, len(df) // 4)
RollingWindow(n) == Min(MaxWindow, n \div 4)

RECURSIVE SumVol(_, _, _)
SumVol(df, a, b) == IF a > b THEN 0 ELSE df[a].vol + SumVol(df, a + 1, b)

RECURSIVE SumSqVol(_, _, _)
SumSqVol(df, a, b) == IF a > b THEN 0 ELSE df[a].vol * df[a].vol + SumSqVol(df, a + 1, b)

\* The observations behind volume_mean and volume_std at row i: the trailing
\* window when it holds min_periods rows, else (fillna) the whole series.
\* n rows, their sum s and their sum of squares q.
VolumeStat(df, i) ==
    LET a == Max(1, i - RollingWindow(Len(df)) + 1)
    IN  IF i - a + 1 >= MinPeriods
        THEN [n |-> i - a + 1, s |-> SumVol(df, a, i), q |-> SumSqVol(df, a, i)]
        ELSE [n |-> Len(df), s |-> SumVol(df, 1, Len(df)), q |-> SumSqVol(df, 1, Len(df))]

\* vol > k * (mean + 2 * std), std the sample deviation (ddof = 1):
\* vol/k - mean > 2 * std, squared and cleared of its denominators.
ExceedsSpike(vol, st, k) ==
    LET u == st.n * vol - k * st.s
    IN  /\ u > 0
        /\ (st.n - 1) * u * u > 4 * k * k * st.n * (st.n * st.q - st.s * st.s)

\* tick_df['time_diff'] of get_tick_data: the seconds since the previous row.
TimeDiff(df, i) == IF i = 1 THEN 0 ELSE df[i].t - df[i - 1].t

\* Feature 1: a volume above twice the threshold with no price change.
Feature1(df, st, i) == ExceedsSpike(df[i].vol, st[i], 2) /\ df[i].delta = 0

\* The same test with a volume tolerance of 5% (a variant for C4).
PairHitNarrow(df, st, flags, i) ==
    /\ ~(flags[i] \/ flags[i - 1])
    /\ ~(df[i].t - df[i - 1].t > PairMaxGap)
    /\ ExceedsSpike(df[i].vol, st[i], 1)
    /\ ExceedsSpike(df[i - 1].vol, st[i - 1], 1)
    /\ ~(100 * Abs(df[i].vol - df[i - 1].vol) > 5 * Max(df[i].vol, df[i - 1].vol))
    /\ df[i].side # df[i - 1].side
    /\ ~(Abs(df[i].delta + df[i - 1].delta) > 1)

\* The test of feature 2 without a look at the flags (a variant for C19).
PairHitAnyway(df, st, flags, i) ==
    /\ ~(df[i].t - df[i - 1].t > PairMaxGap)
    /\ ExceedsSpike(df[i].vol, st[i], 1)
    /\ ExceedsSpike(df[i - 1].vol, st[i - 1], 1)
    /\ ~(100 * Abs(df[i].vol - df[i - 1].vol) > 15 * Max(df[i].vol, df[i - 1].vol))
    /\ df[i].side # df[i - 1].side
    /\ ~(Abs(df[i].delta + df[i - 1].delta) > 1)

\* The test of feature 2 on rows i-1 and i, given the flags so far.
PairHit(df, st, flags, i) ==
    /\ ~(flags[i] \/ flags[i - 1])
    /\ ~(df[i].t - df[i - 1].t > PairMaxGap)
    /\ ExceedsSpike(df[i].vol, st[i], 1)
    /\ ExceedsSpike(df[i - 1].vol, st[i - 1], 1)
    /\ ~(100 * Abs(df[i].vol - df[i - 1].vol) > 15 * Max(df[i].vol, df[i - 1].vol))
    /\ df[i].side # df[i - 1].side
    /\ ~(Abs(df[i].delta + df[i - 1].delta) > 1)

RECURSIVE PairScanTo(_, _, _, _, _)
\* The loop of feature 2 over rows i..last, in order.
PairScanTo(df, st, flags, i, last) ==
    IF i > last THEN flags
    ELSE PairScanTo(df, st,
                    IF PairHit(df, st, flags, i)
                    THEN [flags EXCEPT ![i] = TRUE, ![i - 1] = TRUE] ELSE flags,
                    i + 1, last)

\* Feature 2: for i in range(1, len(df)).
PairScan(df, st, flags) == PairScanTo(df, st, flags, 2, Len(df))

\* Feature 3, one row: high frequency, no price change, balanced volume.
HighFreq(df, st, i) ==
    /\ TimeDiff(df, i) = 0
    /\ df[i].delta = 0
    /\ 2 * st[i].n * df[i].vol > st[i].s
    /\ 2 * st[i].n * df[i].vol < 3 * st[i].s

\* high_freq_count >= 3 at row i: rows i-2, i-1 and i all qualify.
Feature3(df, st, i) ==
    i >= 3 /\ \A j \in (i - 2)..i : HighFreq(df, st, j)

RECURSIVE MaxPrice(_, _, _)
MaxPrice(df, a, b) == IF a = b THEN df[a].price ELSE Max(df[a].price, MaxPrice(df, a + 1, b))

RECURSIVE MinPrice(_, _, _)
MinPrice(df, a, b) == IF a = b THEN df[a].price ELSE Min(df[a].price, MinPrice(df, a + 1, b))

\* Feature 4 for the window of rows e-5..e: both sides present, a price range
\* below one cent, a mean volume above 1.5 times volume_mean at row e.
WindowHit(df, st, e) ==
    LET a == e - WindowLen + 1
    IN  /\ a >= 1
        /\ Len(df) > LongSeries
        /\ \E j \in a..e : df[j].side = "Buy"
        /\ \E j \in a..e : df[j].side = "Sell"
        /\ MaxPrice(df, a, e) - MinPrice(df, a, e) < 1
        /\ st[e].n * SumVol(df, a, e) > 9 * st[e].s

\* Row i lies in a window that feature 4 flags.
Feature4(wh, n, i) == \E e \in i..Min(n, i + WindowLen - 1) : wh[e]

RECURSIVE VolumeStats(_, _)
\* volume_mean and volume_std, rows i..len.
VolumeStats(df, i) ==
    IF i > Len(df) THEN <<>> ELSE <<VolumeStat(df, i)>> \o VolumeStats(df, i + 1)

RECURSIVE Feature1Flags(_, _, _)
\* is_wash_trade after feature 1, rows i..len.
Feature1Flags(df, st, i) ==
    IF i > Len(df) THEN <<>> ELSE <<Feature1(df, st, i)>> \o Feature1Flags(df, st, i + 1)

RECURSIVE WindowHits(_, _, _)
WindowHits(df, st, e) ==
    IF e > Len(df) THEN <<>> ELSE <<WindowHit(df, st, e)>> \o WindowHits(df, st, e + 1)

RECURSIVE LaterFlags(_, _, _, _, _)
\* is_wash_trade after features 3 and 4, rows i..len, from the flags f2 of
\* features 1 and 2.
LaterFlags(df, st, f2, wh, i) ==
    IF i > Len(df) THEN <<>>
    ELSE <<f2[i] \/ Feature3(df, st, i) \/ Feature4(wh, Len(df), i)>>
         \o LaterFlags(df, st, f2, wh, i + 1)

\* is_wash_trade at the end of the function.
WashFlags(df) ==
    LET st == VolumeStats(df, 1)
        f2 == PairScan(df, st, Feature1Flags(df, st, 1))
        wh == WindowHits(df, st, 1)
    IN  LaterFlags(df, st, f2, wh, 1)

RECURSIVE Rows(_, _, _, _)
\* df.loc[mask] for mask = (flags = keep), rows i..len.
Rows(df, flags, keep, i) ==
    IF i > Len(df) THEN <<>>
    ELSE (IF flags[i] = keep THEN <<df[i]>> ELSE <<>>) \o Rows(df, flags, keep, i + 1)

\* A guard off by one.
TooShortOffByOne(df) == df.isNone \/ Len(df.rows) < MinRecords - 1

\* The minimum length below which the function returns its input.
TooShort(df) == df.isNone \/ Len(df.rows) < MinRecords

\* A filter whose ratio is taken from the flags of features 1 and 2 only,
\* before features 3 and 4 have run (a variant for C6).
FilterWashTradesEarlyRatio(df) ==
    IF TooShort(df)
    THEN [clean |-> df, ratio |-> Ratio(0, 1), flags |-> [i \in 1..Len(df.rows) |-> FALSE]]
    ELSE LET flags == WashFlags(df.rows)
             st == VolumeStats(df.rows, 1)
             early == Rows(df.rows, PairScan(df.rows, st, Feature1Flags(df.rows, st, 1)), TRUE, 1)
         IN  [clean |-> Df(Rows(df.rows, flags, FALSE, 1)),
              ratio |-> Ratio(SumVol(early, 1, Len(early)), SumVol(df.rows, 1, Len(df.rows))),
              flags |-> flags]

\* What the function returns (clean, ratio), with the flags it used.
FilterWashTrades(df) ==
    IF TooShort(df)
    THEN [clean |-> df, ratio |-> Ratio(0, 1), flags |-> [i \in 1..Len(df.rows) |-> FALSE]]
    ELSE LET total_volume == SumVol(df.rows, 1, Len(df.rows))
         IN  IF total_volume = 0
             THEN [clean |-> df, ratio |-> Ratio(0, 1), flags |-> [i \in 1..Len(df.rows) |-> FALSE]]
             ELSE LET flags == WashFlags(df.rows)
                      hit == Rows(df.rows, flags, TRUE, 1)
                  IN  [clean |-> Df(Rows(df.rows, flags, FALSE, 1)),
                       ratio |-> Ratio(SumVol(hit, 1, Len(hit)), total_volume),
                       flags |-> flags]

\* The series handed to the filter: a baseline of equal records, one every
\* BaseGap seconds, sides alternating, the price steady or (drift) moving a
\* cent up and down, with a block of three records put at rows p..p+2: two
\* free records and a third that repeats the first or is a baseline record.
\* Volumes are in tens of shares (the baseline trades 10 shares a record).
MaxExtra == 0         \* series have MinRecords - 1 .. MinRecords + MaxExtra rows
BaseVol == 1          \* the volume of a baseline record
NearVol == 94         \* a large volume within 15% of SpikeVol
SpikeVol == 100       \* a large volume
HugeVol == 250        \* a volume above twice the spike threshold
BaseGap == 10         \* seconds between baseline records
BasePrice == 1000     \* the opening price, in cents

WashVols == {BaseVol, NearVol, SpikeVol, HugeVol}
WashDeltas == {-1, 0, 1}
WashGaps == {0, 2, PairMaxGap + 1}
BlockTicks == [vol : WashVols, side : {"Buy", "Sell"}, delta : WashDeltas]
BaseTick(i, drift) ==
    [vol |-> BaseVol, side |-> IF i % 2 = 0 THEN "Buy" ELSE "Sell",
     delta |-> IF drift THEN (IF i % 2 = 0 THEN 1 ELSE -1) ELSE 0]

\* Row i of the series, before times and prices are filled in.
Shape(p, b1, b2, third, drift, i) ==
    IF i = p THEN b1
    ELSE IF i = p + 1 THEN b2
    ELSE IF i = p + 2 /\ third THEN b1
    ELSE BaseTick(i, drift)

RECURSIVE Fill(_, _, _, _, _, _)
\* The rows i..Len(shape) with their times and prices: the rows of the block
\* are g seconds after the row before them, the others BaseGap seconds.
Fill(shape, p, g, i, t, price) ==
    IF i > Len(shape) THEN <<>>
    ELSE LET t1 == IF i = 1 THEN t ELSE t + (IF i >= p /\ i <= p + 2 THEN g ELSE BaseGap)
             p1 == price + shape[i].delta
         IN  <<Tick(i, t1, p1, shape[i].vol, shape[i].side, shape[i].delta)>>
             \o Fill(shape, p, g, i + 1, t1, p1)

WashSeries(n, p, b1, b2, third, drift, g) ==
    Fill([i \in 1..n |-> Shape(p, b1, b2, third, drift, i)], p, g, 1, 0, BasePrice)

WashLens == (MinRecords - 1)..(MinRecords + MaxExtra)
BlockRows == {1, MinRecords \div 2}

WashInputs ==
    {NoneDf} \cup
    {Df(WashSeries(n, p, b1, b2, third, drift, g)) :
        n \in WashLens, p \in BlockRows, b1 \in BlockTicks, b2 \in BlockTicks,
        third \in BOOLEAN, drift \in BOOLEAN, g \in WashGaps}

NoWashOut == [clean |-> NoneDf, ratio |-> Ratio(0, 1), flags |-> <<>>]

WashInit ==
    /\ wash_in \in WashInputs
    /\ wash_out = NoWashOut
    /\ wash_done = FALSE
    /\ ScoreIdle
    /\ DirIdle
    /\ BatchIdle
    /\ CacheIdle
    /\ AnIdle
    /\ SinkIdle
    /\ PoolIdle
    /\ ThIdle
    /\ HyIdle
    /\ TdIdle
    /\ LogIdle
    /\ MiIdle
    /\ RtIdle

\* One call of _filter_wash_trades(tick_df, symbol, name).
WashCall ==
    /\ ~wash_done
    /\ wash_out' = FilterWashTrades(wash_in)
    /\ wash_done' = TRUE
    /\ UNCHANGED <<wash_in, scoreVars, dirVars, batchVars, cacheVars, anVars, sinkVars, poolVars, thVars, hyVars, tdVars, logVars, miVars, rtVars>>

WashNext == WashCall

SpecWash == WashInit /\ [][WashNext]_vars

\* The rows of the input whose index label is not in the clean series.
MissingRows == {i \in 1..Len(wash_in.rows) :
                   \A k \in 1..Len(wash_out.clean.rows) : wash_out.clean.rows[k].idx # i}

RECURSIVE VolOf(_, _)
\* The summed volume of the rows of df with index in S.
VolOf(df, S) == IF S = {} THEN 0 ELSE LET i == CHOOSE x \in S : TRUE
                                      IN  df[i].vol + VolOf(df, S \ {i})

\* The conditions C4 puts on rows i-1 and i, with the flags set when the scan
\* of feature 2 reaches them.
CancellingPair(df, st, i) ==
    /\ df[i].t - df[i - 1].t <= PairMaxGap
    /\ ExceedsSpike(df[i].vol, st[i], 1)
    /\ ExceedsSpike(df[i - 1].vol, st[i - 1], 1)
    /\ 100 * Abs(df[i].vol - df[i - 1].vol) <= 15 * Max(df[i].vol, df[i - 1].vol)
    /\ df[i].side # df[i - 1].side
    /\ Abs(df[i].delta + df[i - 1].delta) <= 1
    /\ LET before == PairScanTo(df, st, Feature1Flags(df, st, 1), 2, i - 1)
       IN  ~before[i] /\ ~before[i - 1]

(* C4: in a series of at least 20 records, an adjacent pair at most 5 s     *)
(* apart, not yet flagged, both above their spike threshold, with volumes  *)
(* within 15% of the larger, on opposite sides and with price deltas that  *)
(* sum to at most one cent, is flagged: both rows are absent from the      *)
(* clean series and both volumes are in the numerator of wash_trade_ratio  *)
(* (the pair's volume over the total volume when nothing else is flagged). *)
C4_CancellingPairFlagged ==
    (wash_done /\ ~wash_in.isNone /\ Len(wash_in.rows) >= MinRecords) =>
        LET df == wash_in.rows
            st == VolumeStats(df, 1)
        IN  \A i \in 2..Len(df) :
                CancellingPair(df, st, i) =>
                    /\ wash_out.flags[i] /\ wash_out.flags[i - 1]
                    /\ {i - 1, i} \subseteq MissingRows
                    /\ wash_out.ratio.den = SumVol(df, 1, Len(df))
                    /\ wash_out.ratio.num >= df[i].vol + df[i - 1].vol
                    /\ MissingRows = {i - 1, i} => wash_out.ratio.num = df[i].vol + df[i - 1].vol

\* Buy SpikeVol at +1 cent, Sell NearVol at -1 cent two seconds later, alone
\* flagged in a series of MinRecords rows.
C4_Witness ==
    /\ wash_done /\ ~wash_in.isNone /\ Len(wash_in.rows) = MinRecords
    /\ LET df == wash_in.rows
       IN  /\ CancellingPair(df, VolumeStats(df, 1), 2)
           /\ df[1].side = "Buy" /\ df[1].vol = SpikeVol /\ df[1].delta = 1
           /\ df[2].side = "Sell" /\ df[2].vol = NearVol /\ df[2].delta = -1
           /\ df[2].t - df[1].t = 2
           /\ MissingRows = {1, 2}
           /\ wash_out.ratio = Ratio(SpikeVol + NearVol, SumVol(df, 1, Len(df)))

(* C5: given fewer than 20 records, or None, the filter returns its input  *)
(* unchanged, no record removed, and a wash_trade_ratio of 0.              *)
C5_ShortSeriesUnchanged ==
    (wash_done /\ (wash_in.isNone \/ Len(wash_in.rows) < MinRecords)) =>
        /\ wash_out.clean = wash_in
        /\ wash_out.ratio.num = 0 /\ wash_out.ratio.den > 0

\* A series of MinRecords - 1 rows that the features would flag rows of was
\* returned as it came.
C5_Witness ==
    /\ wash_done /\ ~wash_in.isNone
    /\ Len(wash_in.rows) = MinRecords - 1
    /\ \E i \in 1..Len(wash_in.rows) : WashFlags(wash_in.rows)[i]
    /\ wash_out.clean = wash_in

(* C6: wash_trade_ratio is the summed volume of exactly the records        *)
(* missing from the clean series over the total volume of the input, and   *)
(* lies in [0, 1].                                                         *)
C6_RatioIsMissingVolume ==
    wash_done =>
        LET total == SumVol(wash_in.rows, 1, Len(wash_in.rows))
            r == wash_out.ratio
        IN  /\ r.den > 0
            /\ r.num * total = VolOf(wash_in.rows, MissingRows) * r.den
            /\ 0 <= r.num /\ r.num <= r.den

\* Rows were removed by feature 3 or 4 only, and others kept.
C6_Witness ==
    /\ wash_done /\ ~wash_in.isNone /\ Len(wash_in.rows) >= MinRecords
    /\ MissingRows # {}
    /\ Cardinality(MissingRows) < Len(wash_in.rows)
    /\ LET df == wash_in.rows
           st == VolumeStats(df, 1)
           f2 == PairScan(df, st, Feature1Flags(df, st, 1))
       IN  \A i \in 1..Len(df) : ~f2[i]
    /\ wash_out.ratio.num > 0

(***************************************************************************)
(* The batch pipeline: analyze_stocks and get_tick_data_batch.  A future   *)
(* is a task state; a provider call that never returns leaves its task     *)
(* "hung".  Scores are small integers here: only their order matters to    *)
(* the ranking.                                                            *)
(***************************************************************************)
MaxSymbols == 3
MaxWorkers == 2
MaxScore == 2

Scores == 1..MaxScore
Codes == 1..Len(symbols)

\* The states in which a future is done, so that as_completed yields it.
TickFinished == {"data", "empty", "raised"}
AnalysisFinished == {"result", "none", "raised"}

\* A handler that keeps every finished task (a variant for C7).
TickKeptAlways(state) == state \in TickFinished

\* f.result() returned a df that is not None and not empty.
TickSucceeded(state) == state = "data"

\* The loop over tick_data_results.items(): a symbol is analysed only if it
\* has historical metrics.
ValidStocks(results, hm) == {s \in results : s \in hm}

\* A score is a float: a number of Scores, or NaN (_calculate_score_v8
\* returns NaN for a NaN metric).
ScoreValues == {Num(v) : v \in Scores} \cup {NaN}

\* x[1]['score'] < y[1]['score'] on floats: False when either is NaN.
ScoreLt(x, y) == ~x.score.nan /\ ~y.score.nan /\ x.score.v < y.score.v

RECURSIVE Reverse(_)
Reverse(a) == IF a = <<>> THEN <<>> ELSE Append(Reverse(Tail(a)), Head(a))

RECURSIVE RunEnd(_, _, _)
\* list.sort, count_run: the last index of the run that starts the list; a
\* descending run is strict, an ascending one goes on while a[i] < a[i-1]
\* is false.
RunEnd(a, i, descending) ==
    IF i > Len(a) THEN i - 1
    ELSE IF ScoreLt(a[i], a[i - 1]) = descending THEN RunEnd(a, i + 1, descending)
    ELSE i - 1

RECURSIVE BinarySearch(_, _, _, _)
\* list.sort, binarysort: the 0-based place of pivot among a[0..r-1].
BinarySearch(a, pivot, l, r) ==
    IF l >= r THEN l
    ELSE LET p == l + ((r - l) \div 2)
         IN  IF ScoreLt(pivot, a[p + 1]) THEN BinarySearch(a, pivot, l, p)
             ELSE BinarySearch(a, pivot, p + 1, r)

RECURSIVE BinarySort(_, _)
\* list.sort, binarysort: a[1..start-1] is the sorted part; the others are
\* inserted one by one.
BinarySort(a, start) ==
    IF start > Len(a) THEN a
    ELSE LET l == BinarySearch(a, a[start], 0, start - 1)
         IN  BinarySort(SubSeq(a, 1, l) \o <<a[start]>> \o SubSeq(a, l + 1, start - 1)
                          \o SubSeq(a, start + 1, Len(a)),
                        start + 1)

\* list.sort in ascending order for a list of fewer than 64 items (one run,
\* then binary insertion), using only "<" as CPython does.
ListSort(a) ==
    IF Len(a) <= 1 THEN a
    ELSE LET descending == ScoreLt(a[2], a[1])
             n == RunEnd(a, 3, descending)
             run == IF descending
                    THEN Reverse(SubSeq(a, 1, n)) \o SubSeq(a, n + 1, Len(a))
                    ELSE a
         IN  BinarySort(run, n + 1)

\* sorted(analysis_results.items(), key=lambda x: x[1]['score'], reverse=True):
\* reverse=True sorts the reversed list and reverses the outcome.
SortedStocks(items) == Reverse(ListSort(Reverse(items)))

NoTask == [state |-> "unsubmitted", score |-> Num(0)]

BatchInit ==
    /\ \E n \in 0..MaxSymbols :
         /\ symbols = [i \in 1..n |-> i]
         /\ historical_metrics \in SUBSET (1..n)
         /\ tick_tasks = [i \in 1..n |-> "unsubmitted"]
         /\ fetch_calls = [i \in 1..n |-> 0]
         /\ analysis_tasks = [i \in 1..n |-> NoTask]
    /\ batch_pc = "start"
    /\ tick_seen = {}
    /\ tick_data_results = {}
    /\ analysis_seen = {}
    /\ analysis_results = <<>>
    /\ final_stocks = <<>>
    /\ ScoreIdle
    /\ DirIdle
    /\ WashIdle
    /\ CacheIdle
    /\ AnIdle
    /\ SinkIdle
    /\ PoolIdle
    /\ ThIdle
    /\ HyIdle
    /\ TdIdle
    /\ LogIdle
    /\ MiIdle
    /\ RtIdle

\* analyze_stocks up to the submission of the tick futures: an empty
\* universe returns [] at once.
AnalyzeStocksStart ==
    /\ batch_pc = "start"
    /\ IF symbols = <<>>
       THEN /\ batch_pc' = "returned"
            /\ UNCHANGED tick_tasks
       ELSE /\ batch_pc' = "tick"
            /\ tick_tasks' = [s \in Codes |-> "queued"]
    /\ UNCHANGED <<symbols, historical_metrics, fetch_calls, tick_seen, tick_data_results,
                   analysis_tasks, analysis_seen, analysis_results, final_stocks>>
    /\ UNCHANGED <<scoreVars, dirVars, washVars, cacheVars, anVars, sinkVars, poolVars, thVars, hyVars, tdVars, logVars, miVars, rtVars>>

\* A worker of the pool picks a queued get_tick_data task.
TickStart(s) ==
    /\ batch_pc = "tick"
    /\ tick_tasks[s] = "queued"
    /\ Cardinality({r \in Codes : tick_tasks[r] \in {"running", "hung"}}) < MaxWorkers
    /\ tick_tasks' = [tick_tasks EXCEPT ![s] = "running"]
    /\ fetch_calls' = [fetch_calls EXCEPT ![s] = @ + 1]
    /\ UNCHANGED <<symbols, historical_metrics, batch_pc, tick_seen, tick_data_results,
                   analysis_tasks, analysis_seen, analysis_results, final_stocks>>
    /\ UNCHANGED <<scoreVars, dirVars, washVars, cacheVars, anVars, sinkVars, poolVars, thVars, hyVars, tdVars, logVars, miVars, rtVars>>

\* get_tick_data returns a series, returns (None, source), or raises.
TickFinish(s, outcome) ==
    /\ batch_pc = "tick"
    /\ tick_tasks[s] = "running"
    /\ tick_tasks' = [tick_tasks EXCEPT ![s] = outcome]
    /\ UNCHANGED <<symbols, historical_metrics, batch_pc, fetch_calls, tick_seen,
                   tick_data_results, analysis_tasks, analysis_seen, analysis_results,
                   final_stocks>>
    /\ UNCHANGED <<scoreVars, dirVars, washVars, cacheVars, anVars, sinkVars, poolVars, thVars, hyVars, tdVars, logVars, miVars, rtVars>>

\* The provider call of get_tick_data never returns.
TickHang(s) ==
    /\ batch_pc = "tick"
    /\ tick_tasks[s] = "running"
    /\ tick_tasks' = [tick_tasks EXCEPT ![s] = "hung"]
    /\ UNCHANGED <<symbols, historical_metrics, batch_pc, fetch_calls, tick_seen,
                   tick_data_results, analysis_tasks, analysis_seen, analysis_results,
                   final_stocks>>
    /\ UNCHANGED <<scoreVars, dirVars, washVars, cacheVars, anVars, sinkVars, poolVars, thVars, hyVars, tdVars, logVars, miVars, rtVars>>

\* One turn of "for f in as_completed(f_to_s)": as_completed yields a
\* future only once it is done, so f.result(timeout=15) returns at once.
TickHandle(s) ==
    /\ batch_pc = "tick"
    /\ tick_tasks[s] \in TickFinished
    /\ s \notin tick_seen
    /\ tick_seen' = tick_seen \cup {s}
    /\ tick_data_results' =
           IF TickSucceeded(tick_tasks[s]) THEN tick_data_results \cup {s}
           ELSE tick_data_results
    /\ UNCHANGED <<symbols, historical_metrics, batch_pc, tick_tasks, fetch_calls,
                   analysis_tasks, analysis_seen, analysis_results, final_stocks>>
    /\ UNCHANGED <<scoreVars, dirVars, washVars, cacheVars, anVars, sinkVars, poolVars, thVars, hyVars, tdVars, logVars, miVars, rtVars>>

\* as_completed is exhausted (every future is done) and the executor's
\* with-block has joined its workers: get_tick_data_batch returns results.
GetTickDataBatchReturn ==
    /\ batch_pc = "tick"
    /\ tick_seen = Codes
    /\ batch_pc' = "valid"
    /\ UNCHANGED <<symbols, historical_metrics, tick_tasks, fetch_calls, tick_seen,
                   tick_data_results, analysis_tasks, analysis_seen, analysis_results,
                   final_stocks>>
    /\ UNCHANGED <<scoreVars, dirVars, washVars, cacheVars, anVars, sinkVars, poolVars, thVars, hyVars, tdVars, logVars, miVars, rtVars>>

\* analyze_stocks builds valid_stocks, returns [] if there is none, and
\* otherwise submits one analyze_stock_worker per valid stock.
SubmitAnalysis ==
    /\ batch_pc = "valid"
    /\ LET valid_stocks == ValidStocks(tick_data_results, historical_metrics)
       IN  IF valid_stocks = {}
           THEN /\ batch_pc' = "returned"
                /\ UNCHANGED analysis_tasks
           ELSE /\ batch_pc' = "analysis"
                /\ analysis_tasks' =
                       [s \in Codes |-> IF s \in valid_stocks
                                        THEN [state |-> "queued", score |-> Num(0)]
                                        ELSE NoTask]
    /\ UNCHANGED <<symbols, historical_metrics, tick_tasks, fetch_calls, tick_seen,
                   tick_data_results, analysis_seen, analysis_results, final_stocks>>
    /\ UNCHANGED <<scoreVars, dirVars, washVars, cacheVars, anVars, sinkVars, poolVars, thVars, hyVars, tdVars, logVars, miVars, rtVars>>

\* analyze_stock_worker returns (symbol, result), returns None, or raises.
AnalysisFinish(s, outcome, score) ==
    /\ batch_pc = "analysis"
    /\ analysis_tasks[s].state = "queued"
    /\ analysis_tasks' =
           [analysis_tasks EXCEPT ![s] =
               [state |-> outcome, score |-> IF outcome = "result" THEN score ELSE Num(0)]]
    /\ UNCHANGED <<symbols, historical_metrics, batch_pc, tick_tasks, fetch_calls, tick_seen,
                   tick_data_results, analysis_seen, analysis_results, final_stocks>>
    /\ UNCHANGED <<scoreVars, dirVars, washVars, cacheVars, anVars, sinkVars, poolVars, thVars, hyVars, tdVars, logVars, miVars, rtVars>>

\* A loop in which an exception of one task discards what was collected (a
\* variant for C14).
CollectedOrAborted(results, task, s) ==
    CASE task.state = "result" -> Append(results, [symbol |-> s, score |-> task.score])
      [] task.state = "raised" -> <<>>
      [] OTHER -> results

\* The body of the loop: res = f.result() is stored if it is not None; an
\* exception is printed and the loop goes on.
Collected(results, task, s) ==
    IF task.state = "result"
    THEN Append(results, [symbol |-> s, score |-> task.score])
    ELSE results

\* One turn of "for f in as_completed(futures)" of the analysis pool.
AnalysisHandle(s) ==
    /\ batch_pc = "analysis"
    /\ analysis_tasks[s].state \in AnalysisFinished
    /\ s \notin analysis_seen
    /\ analysis_seen' = analysis_seen \cup {s}
    /\ analysis_results' = Collected(analysis_results, analysis_tasks[s], s)
    /\ UNCHANGED <<symbols, historical_metrics, batch_pc, tick_tasks, fetch_calls, tick_seen,
                   tick_data_results, analysis_tasks, final_stocks>>
    /\ UNCHANGED <<scoreVars, dirVars, washVars, cacheVars, anVars, sinkVars, poolVars, thVars, hyVars, tdVars, logVars, miVars, rtVars>>

\* The analysis pool is joined; the results are sorted and returned.
AnalyzeStocksReturn ==
    /\ batch_pc = "analysis"
    /\ analysis_seen = {s \in Codes : analysis_tasks[s].state # "unsubmitted"}
    /\ final_stocks' = SortedStocks(analysis_results)
    /\ batch_pc' = "returned"
    /\ UNCHANGED <<symbols, historical_metrics, tick_tasks, fetch_calls, tick_seen,
                   tick_data_results, analysis_tasks, analysis_seen, analysis_results>>
    /\ UNCHANGED <<scoreVars, dirVars, washVars, cacheVars, anVars, sinkVars, poolVars, thVars, hyVars, tdVars, logVars, miVars, rtVars>>

\* A run_analysis that calls the sink whatever the list (a variant for C13).
AlwaysSend(top_stocks) == TRUE

\* run_analysis: "if not top_stocks: return" lets only a non-empty list by.
HasStocks(top_stocks) == top_stocks # <<>>

MaxSend == 30

\* top_stocks[:30]
StocksToSend(top_stocks) == SubSeq(top_stocks, 1, Min(Len(top_stocks), MaxSend))

\* run_analysis after analyze_stocks has returned: an empty list ends the
\* run; otherwise send_dingtalk_message is called, which itself returns
\* before any request when stocks_to_send is empty.
RunAnalysis ==
    /\ batch_pc = "returned"
    /\ batch_pc' = "done"
    /\ IF HasStocks(final_stocks)
       THEN /\ sink_calls' = Append(sink_calls, final_stocks)
            /\ posted' = IF StocksToSend(final_stocks) = <<>> THEN posted
                          ELSE Append(posted, StocksToSend(final_stocks))
       ELSE UNCHANGED <<sink_calls, posted>>
    /\ UNCHANGED <<symbols, historical_metrics, tick_tasks, fetch_calls, tick_seen,
                   tick_data_results, analysis_tasks, analysis_seen, analysis_results,
                   final_stocks>>
    /\ UNCHANGED <<scoreVars, dirVars, washVars, cacheVars, anVars, poolVars, thVars, hyVars, tdVars, logVars, miVars, rtVars>>

BatchNext ==
    \/ AnalyzeStocksStart
    \/ \E s \in Codes : TickStart(s)
    \/ \E s \in Codes, outcome \in TickFinished : TickFinish(s, outcome)
    \/ \E s \in Codes : TickHang(s)
    \/ \E s \in Codes : TickHandle(s)
    \/ GetTickDataBatchReturn
    \/ SubmitAnalysis
    \/ \E s \in Codes, outcome \in AnalysisFinished, score \in ScoreValues :
           AnalysisFinish(s, outcome, score)
    \/ \E s \in Codes : AnalysisHandle(s)
    \/ AnalyzeStocksReturn
    \/ RunAnalysis

SpecBatch == BatchInit /\ [][BatchNext]_vars

\* The threads of the pools and the main thread all get to run.
SpecBatchLive == SpecBatch /\ WF_vars(BatchNext)

\* The symbols of the returned ranking.
Ranked == {final_stocks[k].symbol : k \in 1..Len(final_stocks)}

(* C7 as stated: when analyze_stocks has returned, the ranking holds       *)
(* exactly the instruments whose tick fetch succeeded.                     *)
C7_RankingIsTickSuccesses ==
    batch_pc = "returned" => Ranked = {s \in Codes : tick_tasks[s] = "data"}

(* C7, amended: when analyze_stocks has returned, the ranking holds        *)
(* exactly the instruments whose tick fetch succeeded, that have           *)
(* historical metrics and whose analysis returned a result, each once and  *)
(* with the score of its analysis; an instrument whose fetch failed is     *)
(* absent, and no fetch was started more than once.                        *)
C7_RankingIsAnalysedSuccesses ==
    batch_pc = "returned" =>
        /\ Ranked = {s \in Codes : /\ tick_tasks[s] = "data"
                                   /\ s \in historical_metrics
                                   /\ analysis_tasks[s].state = "result"}
        /\ Len(final_stocks) = Cardinality(Ranked)
        /\ \A k \in 1..Len(final_stocks) :
               /\ final_stocks[k].score \in ScoreValues
               /\ final_stocks[k].score = analysis_tasks[final_stocks[k].symbol].score
        /\ \A s \in Codes : tick_tasks[s] # "data" => s \notin Ranked
        /\ \A s \in Codes : fetch_calls[s] <= 1

\* Three instruments: the fetch of the first failed, the second has ticks
\* but no historical metrics, the third alone is ranked.
C7_Witness ==
    /\ batch_pc = "returned"
    /\ Len(symbols) = 3
    /\ tick_tasks[1] \in {"empty", "raised"}
    /\ tick_tasks[2] = "data" /\ 2 \notin historical_metrics
    /\ tick_tasks[3] = "data"
    /\ Ranked = {3}
    /\ fetch_calls = [s \in Codes |-> 1]

(* C8: once get_tick_data_batch has started it eventually returns, even if *)
(* a provider call never returns.                                          *)
C8_BatchReturnsDespiteHang ==
    (\E s \in Codes : tick_tasks[s] = "hung") ~> (batch_pc # "tick")

(***************************************************************************)
(* The daily cache: _incremental_cache_batch_processor.  A dict is a set   *)
(* of <<symbol, value>> pairs with one pair per symbol; a value stands for *)
(* the metrics processor_func returned for the symbol.                     *)
(***************************************************************************)
MaxCacheSymbols == 2
MaxDay == 2

CacheSymbols == 1..MaxCacheSymbols
Values == {"v1", "v2"}

Keys(dict) == {e[1] : e \in dict}

\* The dicts with keys among the symbols S.
Dicts(S) == {d \in SUBSET (S \X Values) : \A e \in d, f \in d : e[1] = f[1] => e = f}

\* dict.update(new)
Update(dict, new) == {e \in dict : e[1] \notin Keys(new)} \cup new

\* What may be stored under cache_path:
\*   "missing"       os.path.exists is False
\*   "object"        a JSON object; date is its 'date' (0: none, or not a
\*                   day of the model), data its 'data' (data_ok is FALSE
\*                   when 'data' is null instead of an object)
\*   "non_object"    valid JSON that is not an object, such as []
\*   "invalid_json"  text json.load rejects, such as a truncated file
\*   "undecodable"   bytes that are not UTF-8
File(kind, date, data_ok, data) ==
    [kind |-> kind, date |-> date, data_ok |-> data_ok, data |-> data]
MissingFile == File("missing", 0, TRUE, {})
NonObjectFile == File("non_object", 0, TRUE, {})
InvalidJsonFile == File("invalid_json", 0, TRUE, {})
UndecodableFile == File("undecodable", 0, TRUE, {})
ObjectFile(date, data) == File("object", date, TRUE, data)

\* A load that takes the stored data whatever its date (a variant for C9).
LoadCacheAnyDay(file, today_str, read_error) ==
    CASE file.kind = "missing" -> [raised |-> "none", ok |-> TRUE, data |-> {}]
      [] read_error -> [raised |-> "none", ok |-> TRUE, data |-> {}]
      [] file.kind = "invalid_json" -> [raised |-> "none", ok |-> TRUE, data |-> {}]
      [] file.kind = "undecodable" -> [raised |-> "UnicodeDecodeError", ok |-> TRUE, data |-> {}]
      [] file.kind = "non_object" -> [raised |-> "AttributeError", ok |-> TRUE, data |-> {}]
      [] OTHER -> [raised |-> "none", ok |-> file.data_ok, data |-> file.data]

\* Lines 351-362: cached_data after the file has been looked at, and the
\* exception that escaped, if any.  read_error is an IOError of open() or
\* read(); it and json.JSONDecodeError are the two exceptions caught.
LoadCache(file, today_str, read_error) ==
    CASE file.kind = "missing" -> [raised |-> "none", ok |-> TRUE, data |-> {}]
      [] read_error -> [raised |-> "none", ok |-> TRUE, data |-> {}]
      [] file.kind = "invalid_json" -> [raised |-> "none", ok |-> TRUE, data |-> {}]
      [] file.kind = "undecodable" -> [raised |-> "UnicodeDecodeError", ok |-> TRUE, data |-> {}]
      [] file.kind = "non_object" -> [raised |-> "AttributeError", ok |-> TRUE, data |-> {}]
      [] OTHER -> IF file.date = today_str
                  THEN [raised |-> "none", ok |-> file.data_ok, data |-> file.data]
                  ELSE [raised |-> "none", ok |-> TRUE, data |-> {}]

\* Every requested symbol is fetched again (a variant for C22).
AllRequested(requested, cached_data) == requested

\* missing_symbols = [s for s in symbols if s not in cached_data]
MissingSymbols(requested, cached_data) == requested \ Keys(cached_data)

\* Lines 390-396: the file after open(cache_path, 'w') and json.dump.  open
\* may fail and leave the file as it was; a failure after open has
\* truncated the file leaves text that is not JSON.
WriteCache(file, today_str, cached_data, outcome) ==
    CASE outcome = "ok" -> ObjectFile(today_str, cached_data)
      [] outcome = "open_failed" -> file
      [] OTHER -> InvalidJsonFile

WriteOutcomes == {"ok", "open_failed", "interrupted"}

\* The exception that leaves lines 351-364, if any: the one of the load, or
\* the TypeError of "s not in cached_data" when 'data' was null.
RaisedByLoad(load, requested) ==
    IF load.raised # "none" THEN load.raised
    ELSE IF ~load.ok /\ requested # {} THEN "TypeError"
    ELSE "none"

NoPass ==
    [pc |-> "none", day |-> 0, symbols |-> {}, before |-> MissingFile,
     read_error |-> FALSE, prior |-> {}, raised |-> "none", loaded |-> {},
     fetch_called |-> {}, newly |-> {}, returned |-> {}, wrote |-> "none"]

InitialFiles ==
    {MissingFile, NonObjectFile, InvalidJsonFile, UndecodableFile,
     File("object", 1, FALSE, {})}
    \cup {ObjectFile(d, data) : d \in 0..1, data \in {{}, {<<1, "v1">>}}}

CacheInit ==
    /\ today = 1
    /\ cache_file \in InitialFiles
    /\ cache_pass = NoPass
    /\ standing = {}
    /\ ScoreIdle
    /\ DirIdle
    /\ WashIdle
    /\ BatchIdle
    /\ AnIdle
    /\ SinkIdle
    /\ PoolIdle
    /\ ThIdle
    /\ HyIdle
    /\ TdIdle
    /\ LogIdle
    /\ MiIdle
    /\ RtIdle

\* No call of _incremental_cache_batch_processor is under way.
PassOver == cache_pass.pc \in {"none", "returned", "raised"}

\* Lines 347-368 of a call for a non-empty list of symbols (analyze_stocks
\* returns before it when there is no stock): the file is loaded, the
\* missing symbols are listed, and the call returns if there is none.
CacheLoad(requested, read_error) ==
    /\ PassOver
    /\ requested # {}
    /\ read_error => cache_file.kind # "missing"
    /\ LET load == LoadCache(cache_file, today, read_error)
           raised == RaisedByLoad(load, requested)
           missing_symbols == IF raised = "none"
                              THEN MissingSymbols(requested, load.data) ELSE {}
       IN  cache_pass' =
               [pc |-> IF raised # "none" THEN "raised"
                       ELSE IF missing_symbols = {} THEN "returned" ELSE "fetching",
                day |-> today, symbols |-> requested, before |-> cache_file,
                read_error |-> read_error, prior |-> standing, raised |-> raised,
                loaded |-> IF raised = "none" THEN load.data ELSE {},
                fetch_called |-> missing_symbols, newly |-> {},
                returned |-> IF raised = "none" THEN load.data ELSE {},
                wrote |-> "none"]
    /\ UNCHANGED <<today, cache_file, standing>>
    /\ UNCHANGED <<scoreVars, dirVars, washVars, batchVars, anVars, sinkVars, poolVars, thVars, hyVars, tdVars, logVars, miVars, rtVars>>

\* Lines 370-389: processor_func has run for every missing symbol; fetched
\* holds its truthy results (a symbol without one failed or timed out).
\* The results are merged into cached_data; with none, the call returns.
CacheFetch(fetched) ==
    /\ cache_pass.pc = "fetching"
    /\ Keys(fetched) \subseteq cache_pass.fetch_called
    /\ cache_pass' =
           [cache_pass EXCEPT !.pc = IF fetched = {} THEN "returned" ELSE "writing",
                              !.newly = fetched,
                              !.returned = Update(cache_pass.loaded, fetched)]
    /\ UNCHANGED <<today, cache_file, standing>>
    /\ UNCHANGED <<scoreVars, dirVars, washVars, batchVars, anVars, sinkVars, poolVars, thVars, hyVars, tdVars, logVars, miVars, rtVars>>

\* Lines 390-399: the file is written (an IOError is logged) and
\* cached_data is returned.
CacheWrite(outcome) ==
    /\ cache_pass.pc = "writing"
    /\ cache_file' = WriteCache(cache_file, cache_pass.day, cache_pass.returned, outcome)
    /\ cache_pass' = [cache_pass EXCEPT !.pc = "returned", !.wrote = outcome]
    /\ standing' = CASE outcome = "ok" -> cache_pass.returned
                      [] outcome = "interrupted" -> {}
                      [] OTHER -> standing
    /\ UNCHANGED today
    /\ UNCHANGED <<scoreVars, dirVars, washVars, batchVars, anVars, sinkVars, poolVars, thVars, hyVars, tdVars, logVars, miVars, rtVars>>

\* Midnight passes between two calls.
NextDay ==
    /\ PassOver
    /\ today < MaxDay
    /\ today' = today + 1
    /\ standing' = {}
    /\ UNCHANGED <<cache_file, cache_pass>>
    /\ UNCHANGED <<scoreVars, dirVars, washVars, batchVars, anVars, sinkVars, poolVars, thVars, hyVars, tdVars, logVars, miVars, rtVars>>

CacheNext ==
    \/ \E requested \in SUBSET CacheSymbols, read_error \in BOOLEAN :
           CacheLoad(requested, read_error)
    \/ \E fetched \in Dicts(CacheSymbols) : CacheFetch(fetched)
    \/ \E outcome \in WriteOutcomes : CacheWrite(outcome)
    \/ NextDay

SpecCache == CacheInit /\ [][CacheNext]_vars

CacheUnavailable(p) ==
    \/ p.before.kind # "object"
    \/ p.read_error
    \/ ~p.before.data_ok

(* C10: no exception leaves the pass, and a pass that could not use the    *)
(* file starts from an empty cache and fetches every requested symbol.     *)
C10_CacheFailureIsEmptyCache ==
    cache_pass.pc \in {"returned", "raised"} =>
        /\ cache_pass.raised = "none"
        /\ CacheUnavailable(cache_pass) =>
               /\ cache_pass.loaded = {}
               /\ cache_pass.fetch_called = cache_pass.symbols

(***************************************************************************)
(* The analyzers on one series, and analyze_stock_worker that chains them. *)
(* price_impact is 价格变动 / 成交量; its sums are taken over the common    *)
(* denominator of the volumes, so that the means are exact.                *)
(***************************************************************************)
MaxAnLen == 2
MaxAnVol == 2

One == Ratio(1, 1)
Zero == Ratio(0, 1)
RatioEq(a, b) == a.num * b.den = b.num * a.den

RECURSIVE Gcd(_, _)
Gcd(a, b) == IF b = 0 THEN a ELSE Gcd(b, a % b)

RECURSIVE VolLcm(_)
\* The least common multiple of the volumes of the rows.
VolLcm(df) ==
    IF df = <<>> THEN 1
    ELSE LET l == VolLcm(Tail(df)) IN (Head(df).vol * l) \div Gcd(Head(df).vol, l)

RECURSIVE SideCount(_, _)
SideCount(df, side) ==
    IF df = <<>> THEN 0
    ELSE (IF Head(df).side = side THEN 1 ELSE 0) + SideCount(Tail(df), side)

RECURSIVE ImpactSum(_, _, _, _)
\* L times the sum of price_impact (of its absolute value when abs) over the
\* rows of the side.
ImpactSum(df, side, abs, L) ==
    IF df = <<>> THEN 0
    ELSE (IF Head(df).side = side
          THEN (IF abs THEN Abs(Head(df).delta) ELSE Head(df).delta) * (L \div Head(df).vol)
          ELSE 0)
         + ImpactSum(Tail(df), side, abs, L)

\* pressure_ratio = buy_pressure / sell_pressure if sell_pressure > 0 else 1.0
\* where a pressure is the mean of |price_impact| of its side (0 without rows).
PressureRatio(df) ==
    LET L == VolLcm(df)
        buys == SideCount(df, "Buy")
        sells == SideCount(df, "Sell")
        buy_sum == ImpactSum(df, "Buy", TRUE, L)
        sell_sum == ImpactSum(df, "Sell", TRUE, L)
    IN  IF sells > 0 /\ sell_sum > 0
        THEN (IF buys > 0 THEN Ratio(buy_sum * sells, sell_sum * buys) ELSE Zero)
        ELSE One

\* impact_asymmetry = buy_impact - sell_impact, the means of price_impact of
\* the two sides; the mean of no row is NaN.
ImpactAsymmetry(df) ==
    LET L == VolLcm(df)
        buys == SideCount(df, "Buy")
        sells == SideCount(df, "Sell")
    IN  IF buys = 0 \/ sells = 0 THEN [nan |-> TRUE, v |-> Zero]
        ELSE [nan |-> FALSE,
              v |-> Ratio(ImpactSum(df, "Buy", FALSE, L) * sells
                            - ImpactSum(df, "Sell", FALSE, L) * buys,
                          L * buys * sells)]

\* tick_df is None or tick_df.empty
IsNoneOrEmpty(df) == df.isNone \/ df.rows = <<>>

\* analyze_trade_direction(tick_df) for a frame that may be None.
TradeDirectionOf(df) ==
    IF IsNoneOrEmpty(df) THEN <<>> ELSE AnalyzeTradeDirection(df.rows)

\* analyze_microstructure(tick_df): {} for None or an empty frame, else the
\* features (those read by analyze_stock_worker).
AnalyzeMicrostructure(df) ==
    IF IsNoneOrEmpty(df) THEN <<>>
    ELSE [pressure_ratio |-> PressureRatio(df.rows),
          impact_asymmetry |-> ImpactAsymmetry(df.rows)]

\* A worker that gives up only on None (a variant for C11).
CleanIsNone(clean_tick_df) == clean_tick_df.isNone

\* clean_tick_df is None or clean_tick_df.empty
CleanIsUnusable(clean_tick_df) == IsNoneOrEmpty(clean_tick_df)

NoResult == [isNone |-> TRUE, metrics |-> <<>>]

\* analyze_stock_worker up to the metrics dict: None when nothing is left of
\* the series, else the metrics, with the defaults of its lookups.
AnalyzeStockWorker(df) ==
    LET filtered == FilterWashTrades(df)
        clean_tick_df == filtered.clean
    IN  IF CleanIsUnusable(clean_tick_df) THEN NoResult
        ELSE LET trade_direction_ == TradeDirectionOf(clean_tick_df)
                 microstructure == AnalyzeMicrostructure(clean_tick_df)
             IN  [isNone |-> FALSE,
                  metrics |->
                      [net_buy_volume |-> Get(trade_direction_, "net_buy_volume", 0),
                       wash_trade_ratio |-> filtered.ratio,
                       active_buy_ratio |-> Get(trade_direction_, "active_buy_ratio", Half),
                       pressure_ratio |-> Get(microstructure, "pressure_ratio", One),
                       impact_asymmetry |->
                           Get(microstructure, "impact_asymmetry", [nan |-> FALSE, v |-> Zero])]]

AnTicks == [vol : 1..MaxAnVol, side : {"Buy", "Sell"}, delta : {-1, 0, 1}]
AnInputs ==
    {NoneDf} \cup
    UNION {{Df([i \in 1..n |-> Tick(i, i, 1000, f[i].vol, f[i].side, f[i].delta)]) :
               f \in [1..n -> AnTicks]} : n \in 0..MaxAnLen}

AnalyzerNames == {"filter_wash_trades", "trade_direction", "microstructure", "worker"}

AnInit ==
    /\ an_in \in AnInputs
    /\ an_out = <<>>
    /\ ScoreIdle
    /\ DirIdle
    /\ WashIdle
    /\ BatchIdle
    /\ CacheIdle
    /\ SinkIdle
    /\ PoolIdle
    /\ ThIdle
    /\ HyIdle
    /\ TdIdle
    /\ LogIdle
    /\ MiIdle
    /\ RtIdle

\* What the named function returns for the frame.
AnalyzerResult(name, df) ==
    CASE name = "filter_wash_trades" -> FilterWashTrades(df)
      [] name = "trade_direction" -> TradeDirectionOf(df)
      [] name = "microstructure" -> AnalyzeMicrostructure(df)
      [] OTHER -> AnalyzeStockWorker(df)

\* One call of one of the four functions on the frame.
AnCall(name) ==
    /\ name \notin DOMAIN an_out
    /\ an_out' = [n \in DOMAIN an_out \cup {name} |->
                     IF n = name THEN AnalyzerResult(name, an_in) ELSE an_out[n]]
    /\ UNCHANGED an_in
    /\ UNCHANGED <<scoreVars, dirVars, washVars, batchVars, cacheVars, sinkVars, poolVars, thVars, hyVars, tdVars, logVars, miVars, rtVars>>

AnNext == \E name \in AnalyzerNames : AnCall(name)

SpecAnalyzers == AnInit /\ [][AnNext]_vars

AllCalled == DOMAIN an_out = AnalyzerNames

(* C11 as stated: for an empty or null series every analyzer returns its   *)
(* default features (active_buy_ratio 0.5, pressure_ratio 1.0,             *)
(* wash_trade_ratio 0) and a default feature vector is produced for the    *)
(* instrument.                                                             *)
C11_DefaultsReturned ==
    (AllCalled /\ IsNoneOrEmpty(an_in)) =>
        /\ RatioEq(an_out["filter_wash_trades"].ratio, Zero)
        /\ "active_buy_ratio" \in DOMAIN an_out["trade_direction"]
        /\ "pressure_ratio" \in DOMAIN an_out["microstructure"]
        /\ ~an_out["worker"].isNone

(* C11, amended: for an empty or null series no analyzer raises;           *)
(* _filter_wash_trades returns the series as it is with ratio 0,           *)
(* analyze_trade_direction and analyze_microstructure return an empty dict *)
(* (the defaults 0.5 and 1.0 are those of the worker's lookups in it), and *)
(* analyze_stock_worker returns None: no feature vector is produced.       *)
C11_EmptyDictsAndNoVector ==
    (AllCalled /\ IsNoneOrEmpty(an_in)) =>
        /\ an_out["filter_wash_trades"].clean = an_in
        /\ RatioEq(an_out["filter_wash_trades"].ratio, Zero)
        /\ DOMAIN an_out["trade_direction"] = {}
        /\ DOMAIN an_out["microstructure"] = {}
        /\ Get(an_out["trade_direction"], "active_buy_ratio", Half) = Half
        /\ Get(an_out["microstructure"], "pressure_ratio", One) = One
        /\ an_out["worker"] = NoResult

\* The four functions have returned for an empty (not None) frame.
C11_Witness ==
    /\ AllCalled
    /\ an_in = Df(<<>>)
    /\ an_out["trade_direction"] = <<>>
    /\ an_out["worker"].isNone

(* C12: for every non-empty series whose records are all on the Buy side,  *)
(* analyze_trade_direction returns net_buy_volume equal to the summed      *)
(* volume of the series and active_buy_ratio equal to 1.0.                 *)
C12_AllBuy ==
    (dir_done /\ tick_df # <<>> /\ \A i \in 1..Len(tick_df) : tick_df[i].side = "Buy") =>
        /\ trade_direction.net_buy_volume = SumVol(tick_df, 1, Len(tick_df))
        /\ RatioEq(trade_direction.active_buy_ratio, One)
        /\ trade_direction.active_buy_ratio.den > 0

\* An all-Buy series of the greatest length, with a record of more than one
\* unit of volume, has been analysed.
C12_Witness ==
    /\ dir_done
    /\ Len(tick_df) = MaxDirLen
    /\ \A i \in 1..Len(tick_df) : tick_df[i].side = "Buy"
    /\ \E i \in 1..Len(tick_df) : tick_df[i].vol > 1
    /\ trade_direction.net_buy_volume > Len(tick_df)

(* C13: send_dingtalk_message is never called with an empty list and       *)
(* nothing empty is posted; when run_analysis is over and the pass ranked  *)
(* no instrument, the sink was not called and nothing was posted.          *)
C13_NoEmptyNotification ==
    /\ \A k \in 1..Len(sink_calls) : sink_calls[k] # <<>>
    /\ \A k \in 1..Len(posted) : posted[k] # <<>>
    /\ (batch_pc = "done" /\ final_stocks = <<>>) => (sink_calls = <<>> /\ posted = <<>>)
    /\ (batch_pc = "done" /\ final_stocks # <<>>) => posted = <<StocksToSend(final_stocks)>>

\* run_analysis is over for a universe of the greatest size in which every
\* instrument failed at the tick provider: nothing was sent.
C13_Witness ==
    /\ batch_pc = "done"
    /\ Len(symbols) = MaxSymbols
    /\ \A s \in Codes : tick_tasks[s] \in {"empty", "raised"}
    /\ final_stocks = <<>>
    /\ sink_calls = <<>>

(* C14: when analyze_stocks has returned, every instrument whose own tick  *)
(* fetch returned data and whose own analysis returned a result is in the  *)
(* ranking, whatever exceptions or failures the tasks of the other         *)
(* instruments ended with.                                                 *)
C14_FailuresAreLocal ==
    batch_pc \in {"returned", "done"} =>
        \A s \in Codes :
            (tick_tasks[s] = "data" /\ analysis_tasks[s].state = "result") => s \in Ranked

\* The fetch of one instrument raised, the analysis of another raised, and
\* the third is ranked.
C14_Witness ==
    /\ batch_pc = "returned"
    /\ Len(symbols) = 3
    /\ \E a, b, c \in Codes :
          /\ tick_tasks[a] = "raised"
          /\ tick_tasks[b] = "data" /\ analysis_tasks[b].state = "raised"
          /\ tick_tasks[c] = "data" /\ analysis_tasks[c].state = "result"
          /\ Ranked = {c}

(* C15: the list analyze_stocks returns holds each instrument at most once *)
(* and is ordered by non-increasing score: no entry is followed, anywhere  *)
(* behind it, by an entry with a greater score.                            *)
C15_RankingSortedAndUnique ==
    batch_pc \in {"returned", "done"} =>
        /\ Cardinality(Ranked) = Len(final_stocks)
        /\ \A i \in 1..Len(final_stocks), j \in 1..Len(final_stocks) :
               i < j => ~ScoreLt(final_stocks[i], final_stocks[j])

(***************************************************************************)
(* The accumulated limit-up pool: QuantAnalysis.update_accumulated_zt_stocks *)
(* with load_accumulated_zt_stocks and save_accumulated_zt_stocks            *)
(* (src/optimize_weights.py).  The file accumulated_zt_stocks.json holds the *)
(* pool; stocks are kept by code as the handler keeps them in a dict.        *)
(***************************************************************************)
MaxPoolDay == 2
MaxZtCount == 2

PoolCodes == {"SH600000", "SZ000001", "SZ300750"}
PoolNames == {"PFYH", "ST PFYH"}
PoolDays == 1..MaxPoolDay
PoolPrices == {10, 11}

\* code.startswith(('SZ000', 'SZ001', 'SZ002', 'SH600', 'SH601', 'SH603', 'SH605'))
MainBoard(code) == code \in {"SH600000", "SZ000001"}

\* 'ST' not in name
NotST(name) == name = "PFYH"

\* The filter of the existing pool: main board and not ST.
Eligible(code, stock) == MainBoard(code) /\ NotST(stock.name)

\* filtered_existing_stocks: the codes of the loaded pool that pass the filter.
FilteredExisting(stocks) == {c \in DOMAIN stocks : Eligible(c, stocks[c])}

\* load_accumulated_zt_stocks: the pool of the file, or an empty pool when the
\* file does not exist or reading it raises.
LoadAccumulated(file, read_error) ==
    IF file.exists /\ ~read_error THEN file
    ELSE [exists |-> TRUE, stocks |-> <<>>, last_update |-> 0]

\* The frames update_accumulated_zt_stocks is called with: rows by code with
\* a name and a latest price.
ZtFrames == UNION {[S -> [name : PoolNames, price : PoolPrices]] : S \in SUBSET PoolCodes}

\* The pool after the rows of new_zt_df are merged into the filtered pool.
Merged(stocks, new_zt_df, date_str) ==
    LET kept == FilteredExisting(stocks)
    IN  [c \in kept \cup DOMAIN new_zt_df |->
            IF c \notin kept
            THEN [name |-> new_zt_df[c].name, first |-> date_str,
                  recent |-> date_str, price |-> new_zt_df[c].price, count |-> 1]
            ELSE IF c \in DOMAIN new_zt_df
            THEN [stocks[c] EXCEPT !.count = @ + 1, !.recent = date_str,
                                   !.price = new_zt_df[c].price]
            ELSE stocks[c]]

\* The codes of the persisted pool.
PersistedCodes(file) == IF file.exists THEN DOMAIN file.stocks ELSE {}

PoolInit ==
    /\ zt_file = [exists |-> FALSE, stocks |-> <<>>, last_update |-> 0]
    /\ ScoreIdle
    /\ DirIdle
    /\ WashIdle
    /\ BatchIdle
    /\ CacheIdle
    /\ SinkIdle
    /\ AnIdle
    /\ ThIdle
    /\ HyIdle
    /\ TdIdle
    /\ LogIdle
    /\ MiIdle
    /\ RtIdle

\* update_accumulated_zt_stocks(new_zt_df, date_str): load, filter, merge,
\* save; a failed save leaves the file as it was.
UpdateAccumulatedZtStocks(new_zt_df, date_str, read_error, save_error) ==
    LET accumulated_data == LoadAccumulated(zt_file, read_error)
        existing_stocks == Merged(accumulated_data.stocks, new_zt_df, date_str)
    IN  /\ date_str >= zt_file.last_update
        /\ \A c \in DOMAIN existing_stocks : existing_stocks[c].count <= MaxZtCount
        /\ zt_file' = IF save_error THEN zt_file
                      ELSE [exists |-> TRUE, stocks |-> existing_stocks,
                            last_update |-> date_str]
        /\ UNCHANGED <<scoreVars, dirVars, washVars, batchVars, cacheVars, anVars, sinkVars, thVars, hyVars, tdVars, logVars, miVars, rtVars>>

PoolNext ==
    \E new_zt_df \in ZtFrames, date_str \in PoolDays, read_error \in BOOLEAN,
       save_error \in BOOLEAN :
        UpdateAccumulatedZtStocks(new_zt_df, date_str, read_error, save_error)

SpecPool == PoolInit /\ [][PoolNext]_vars

(* C16: the accumulated pool only grows: every code of the persisted pool  *)
(* before a call of update_accumulated_zt_stocks is in the pool after it.  *)
C16_PoolOnlyGrows ==
    [][PersistedCodes(zt_file) \subseteq PersistedCodes(zt_file')]_vars

(* C17: in a series of at least 20 records, whenever three consecutive     *)
(* records each have an inter-arrival time below 0.5 s, a near-zero price  *)
(* delta and a volume within (0.5, 1.5) times the rolling mean, all three  *)
(* are flagged and none of them is in the clean series.                    *)
C17_AllThreeFlagged ==
    (wash_done /\ ~wash_in.isNone /\ Len(wash_in.rows) >= MinRecords) =>
        LET df == wash_in.rows
            st == VolumeStats(df, 1)
        IN  \A i \in 3..Len(df) :
                (\A j \in (i - 2)..i : HighFreq(df, st, j)) =>
                    /\ \A j \in (i - 2)..i : wash_out.flags[j]
                    /\ (i - 2)..i \subseteq MissingRows

(***************************************************************************)
(* The rolling baseline of _filter_wash_trades (lines 635-639) on series   *)
(* of several lengths.  volume_mean and volume_std at a row are kept as    *)
(* the observations they are taken over: their number n, sum s and sum of  *)
(* squares q.                                                              *)
(***************************************************************************)
MaxThStep == 3        \* volume patterns: row i trades 1 + (i * k) % 3, k <= MaxThStep
ThSpike == 30         \* the volume of the one large record

\* The lengths of the series: from MinRecords up to the first length with a
\* window of MaxWindow rows.
ThLens == {MinRecords, MinRecords + 4, 2 * MinRecords, 4 * MaxWindow}

\* Where the large record sits, counted from the end of the series.
ThBack == {0, 3, 7, 12, 19}

RECURSIVE ThRows(_, _, _, _)
\* Rows i..n of a series with volume pattern k and the large record at row pos.
ThRows(n, k, pos, i) ==
    IF i > n THEN <<>>
    ELSE <<Tick(i, i * BaseGap, BasePrice,
                IF i = pos THEN ThSpike ELSE 1 + ((i * k) % 3),
                IF i % 2 = 0 THEN "Buy" ELSE "Sell", 0)>>
         \o ThRows(n, k, pos, i + 1)

ThInputs == {ThRows(n, k, n - back, 1) : n \in ThLens, k \in 1..MaxThStep, back \in ThBack}

ThInit ==
    /\ th_in \in ThInputs
    /\ th_out = <<>>
    /\ ScoreIdle
    /\ DirIdle
    /\ WashIdle
    /\ BatchIdle
    /\ CacheIdle
    /\ AnIdle
    /\ SinkIdle
    /\ PoolIdle
    /\ HyIdle
    /\ TdIdle
    /\ LogIdle
    /\ MiIdle
    /\ RtIdle

\* volume_mean, volume_std (and with them volume_spike_threshold) of the
\* series.
RollingBaseline ==
    /\ th_out = <<>>
    /\ th_out' = VolumeStats(th_in, 1)
    /\ UNCHANGED <<th_in, scoreVars, dirVars, washVars, batchVars, cacheVars, anVars, sinkVars, poolVars, hyVars, tdVars, logVars, miVars, rtVars>>

ThNext == RollingBaseline

SpecThreshold == ThInit /\ [][ThNext]_vars

RECURSIVE SqVolOf(_, _)
\* The summed squared volume of the rows of df with index in S.
SqVolOf(df, S) == IF S = {} THEN 0 ELSE LET i == CHOOSE x \in S : TRUE
                                        IN  df[i].vol * df[i].vol + SqVolOf(df, S \ {i})

\* Number, sum and sum of squares of the volumes of the rows in S.
StatOver(df, S) == [n |-> Cardinality(S), s |-> VolOf(df, S), q |-> SqVolOf(df, S)]

\* The last w rows up to row i.
Trailing(i, w) == Max(1, i - w + 1)..i

\* Two baselines give the same spike threshold as far as volumes up to
\* ThSpike can tell.
SameThreshold(a, b) ==
    \A v \in 1..ThSpike : ExceedsSpike(v, a, 1) = ExceedsSpike(v, b, 1)

(* C18 as stated: for every series of at least 20 records, the spike       *)
(* threshold at a record with at least 5 records in its trailing window of *)
(* 20 is mean + 2 stdev of the volumes of that window, whatever the length *)
(* of the series.                                                          *)
C18_ThresholdOverTwentyRecords ==
    th_out # <<>> =>
        \A i \in MinPeriods..Len(th_in) :
            SameThreshold(th_out[i], StatOver(th_in, Trailing(i, MaxWindow)))

(* C18, amended: for every series of n >= 20 records, the spike threshold  *)
(* at a record is mean + 2 stdev of the volumes of its trailing window of  *)
(* min(20, n div 4) records when that window holds at least 5 records, and *)
(* of the whole series otherwise (the first four records).                 *)
C18_ThresholdOverAdaptiveWindow ==
    th_out # <<>> =>
        /\ Len(th_out) = Len(th_in)
        /\ \A i \in 1..Len(th_in) :
              LET w == Min(MaxWindow, Len(th_in) \div 4)
              IN  th_out[i] = IF i >= MinPeriods THEN StatOver(th_in, Trailing(i, w))
                              ELSE StatOver(th_in, 1..Len(th_in))

\* The baseline of a series of 40 records was taken: its window has 10 rows
\* and the large record, 12 rows back, is in the last 20 rows but not in the
\* window of the last row.
C18_Witness ==
    /\ th_out # <<>>
    /\ Len(th_in) = 2 * MinRecords
    /\ th_in[Len(th_in) - 12].vol = ThSpike
    /\ th_out[Len(th_in)].n = (2 * MinRecords) \div 4
    /\ th_out[1].n = Len(th_in)
    /\ ~SameThreshold(th_out[Len(th_in)], StatOver(th_in, Trailing(Len(th_in), MaxWindow)))

RECURSIVE PairsFlagged(_, _, _, _)
\* The rows i at which the loop of feature 2, run over rows i..len from the
\* given flags, changes a flag: the pairs (i-1, i) it flags.
PairsFlagged(df, st, flags, i) ==
    IF i > Len(df) THEN {}
    ELSE LET after == PairScanTo(df, st, flags, i, i)
         IN  (IF after # flags THEN {i} ELSE {}) \cup PairsFlagged(df, st, after, i + 1)

\* Rows i-1 and i meet the conditions of the cancellation rule, their flags
\* left aside.
PairMeets(df, st, i) ==
    /\ df[i].t - df[i - 1].t <= PairMaxGap
    /\ ExceedsSpike(df[i].vol, st[i], 1)
    /\ ExceedsSpike(df[i - 1].vol, st[i - 1], 1)
    /\ 100 * Abs(df[i].vol - df[i - 1].vol) <= 15 * Max(df[i].vol, df[i - 1].vol)
    /\ df[i].side # df[i - 1].side
    /\ Abs(df[i].delta + df[i - 1].delta) <= 1

(* C19: the cancellation rule never flags a pair with a record that is     *)
(* already flagged, by the intra-record rule or by an earlier pair: the    *)
(* pairs it flags are disjoint, and in a chain of three records whose two  *)
(* adjacent pairs both meet the conditions only the first pair is flagged  *)
(* by the rule.                                                            *)
C19_PairsDisjoint ==
    (wash_done /\ ~wash_in.isNone /\ Len(wash_in.rows) >= MinRecords) =>
        LET df == wash_in.rows
            st == VolumeStats(df, 1)
            f1 == Feature1Flags(df, st, 1)
            pairs == PairsFlagged(df, st, f1, 2)
        IN  /\ \A i \in pairs : ~f1[i] /\ ~f1[i - 1]
            /\ \A i \in pairs : i + 1 \notin pairs
            /\ \A i \in 3..Len(df) :
                  (PairMeets(df, st, i - 1) /\ PairMeets(df, st, i) /\ (i - 1) \in pairs)
                      => i \notin pairs
            /\ \A i \in pairs : wash_out.flags[i] /\ wash_out.flags[i - 1]

\* A chain of three: rows 1-2 and rows 2-3 both meet the conditions, the
\* rule flagged rows 1 and 2 only, and row 3 is in the clean series.
C19_Witness ==
    /\ wash_done /\ ~wash_in.isNone /\ Len(wash_in.rows) >= MinRecords
    /\ LET df == wash_in.rows
           st == VolumeStats(df, 1)
           f1 == Feature1Flags(df, st, 1)
       IN  /\ PairMeets(df, st, 2) /\ PairMeets(df, st, 3)
           /\ ~f1[1] /\ ~f1[2] /\ ~f1[3]
           /\ PairsFlagged(df, st, f1, 2) = {2}
    /\ MissingRows = {1, 2}

(***************************************************************************)
(* From the raw series to the features: get_tick_data derives its columns  *)
(* (lines 558-578), analyze_stock_worker filters the series and hands the  *)
(* clean rows, with the columns they came with, to the analyzers.  Two     *)
(* series that differ in one record go through it side by side.            *)
(***************************************************************************)
HyPrice == 10         \* the opening price of these series

RECURSIVE DerivedColumns(_, _, _, _)
\* Rows i..len with time_diff, cum_volume and cum_volume_price
\* (vwap = cum_volume_price / cum_volume), given the sums over rows 1..i-1.
DerivedColumns(rows, i, cum_volume, cum_volume_price) ==
    IF i > Len(rows) THEN <<>>
    ELSE LET cv == cum_volume + rows[i].vol
             cvp == cum_volume_price + rows[i].price * rows[i].vol
         IN  <<[idx |-> rows[i].idx, t |-> rows[i].t, price |-> rows[i].price,
                vol |-> rows[i].vol, side |-> rows[i].side, delta |-> rows[i].delta,
                time_diff |-> TimeDiff(rows, i), cum_volume |-> cv,
                cum_volume_price |-> cvp]>>
             \o DerivedColumns(rows, i + 1, cv, cvp)

\* get_tick_data: the frame with its derived columns.
GetTickData(rows) == Df(DerivedColumns(rows, 1, 0, 0))

RECURSIVE SumTimeDiff(_)
SumTimeDiff(rows) == IF rows = <<>> THEN 0 ELSE Head(rows).time_diff + SumTimeDiff(Tail(rows))

\* avg_time_between_trades = tick_df['time_diff'].mean(); trade_intensity is
\* 1 / (avg_time_between_trades + 0.001).
AvgTimeBetweenTrades(rows) == Ratio(SumTimeDiff(rows), Len(rows))

RECURSIVE PriceVwapDiff(_)
\* abs(price_vwap_diff) row by row: |price - vwap| / vwap; liquidity_index is
\* its mean.
PriceVwapDiff(rows) ==
    IF rows = <<>> THEN <<>>
    ELSE <<Ratio(Abs(Head(rows).price * Head(rows).cum_volume - Head(rows).cum_volume_price),
                 Head(rows).cum_volume_price)>>
         \o PriceVwapDiff(Tail(rows))

NoFeatures == [isNone |-> TRUE, flags |-> <<>>, features |-> <<>>]

\* get_tick_data and analyze_stock_worker on one raw series: the flags of the
\* filter and the features of the clean series.
CleanPipeline(raw) ==
    LET df == GetTickData(raw)
        filtered == FilterWashTrades(df)
        clean_tick_df == filtered.clean
    IN  IF CleanIsUnusable(clean_tick_df)
        THEN [isNone |-> TRUE, flags |-> filtered.flags, features |-> <<>>]
        ELSE [isNone |-> FALSE, flags |-> filtered.flags,
              features |->
                  [trade_direction |-> TradeDirectionOf(clean_tick_df),
                   microstructure |-> AnalyzeMicrostructure(clean_tick_df),
                   avg_time_between_trades |-> AvgTimeBetweenTrades(clean_tick_df.rows),
                   price_vwap_diff |-> PriceVwapDiff(clean_tick_df.rows)]]

\* The block records of these series.
HyFirst == {[vol |-> SpikeVol, side |-> "Buy", delta |-> 1],
            [vol |-> HugeVol, side |-> "Buy", delta |-> 0],
            [vol |-> BaseVol, side |-> "Buy", delta |-> 0]}
HySecond == {[vol |-> NearVol, side |-> "Sell", delta |-> -1],
             [vol |-> BaseVol, side |-> "Sell", delta |-> 0]}

HySeries ==
    {Fill([i \in 1..MinRecords |-> Shape(p, b1, b2, third, drift, i)], p, g, 1, 0, HyPrice) :
        p \in BlockRows, b1 \in HyFirst, b2 \in HySecond, third \in BOOLEAN,
        drift \in BOOLEAN, g \in {0, 2}}

HyKinds == {"price", "volume", "timestamp"}

\* The series with the price, the volume or the timestamp of row r raised by
\* one.
Changed(rows, r, kind) ==
    [rows EXCEPT ![r] = CASE kind = "price" -> [@ EXCEPT !.price = @ + 1]
                          [] kind = "volume" -> [@ EXCEPT !.vol = @ + 1]
                          [] kind = "timestamp" -> [@ EXCEPT !.t = @ + 1]]

\* The changed series is still in time order.
StillSorted(rows, r, kind) ==
    kind = "timestamp" => (r = Len(rows) \/ rows[r].t + 1 <= rows[r + 1].t)

HyInputs ==
    {[a |-> rows, b |-> Changed(rows, r, kind), row |-> r] :
        <<rows, r, kind>> \in
            {x \in HySeries \X (1..MinRecords) \X HyKinds :
                /\ \E p \in BlockRows : x[2] \in p..(p + 2)
                /\ StillSorted(x[1], x[2], x[3])}}

HyInit ==
    /\ hy_in \in HyInputs
    /\ hy_out = [a |-> NoFeatures, b |-> NoFeatures]
    /\ ScoreIdle
    /\ DirIdle
    /\ WashIdle
    /\ BatchIdle
    /\ CacheIdle
    /\ AnIdle
    /\ SinkIdle
    /\ PoolIdle
    /\ ThIdle
    /\ TdIdle
    /\ LogIdle
    /\ MiIdle
    /\ RtIdle

\* The pipeline runs on one of the two series.
HyRun(which) ==
    /\ hy_out[which] = NoFeatures
    /\ hy_out' = [hy_out EXCEPT ![which] = CleanPipeline(hy_in[which])]
    /\ UNCHANGED <<hy_in, scoreVars, dirVars, washVars, batchVars, cacheVars, anVars, sinkVars, poolVars, thVars, tdVars, logVars, miVars, rtVars>>

HyNext == \E which \in {"a", "b"} : HyRun(which)

SpecClean == HyInit /\ [][HyNext]_vars

\* x <= y for ratios with positive denominators.
RatioLeq(x, y) == x.num * y.den <= y.num * x.den

\* The means of two columns differ for sure: one is row by row at most the
\* other and somewhere smaller.
MeanBelow(xs, ys) ==
    /\ Len(xs) = Len(ys)
    /\ \A k \in 1..Len(xs) : RatioLeq(xs[k], ys[k])
    /\ \E k \in 1..Len(xs) : ~RatioLeq(ys[k], xs[k])

(* C20: flagged records have no influence on the features: two series that *)
(* differ only in the price, volume or timestamp of a record the filter    *)
(* flags in both yield the same order-flow and microstructure features of  *)
(* the clean series, trade_intensity and liquidity_index among them.       *)
C20_FlaggedRecordsHaveNoInfluence ==
    (/\ hy_in # <<>>
     /\ ~hy_out.a.isNone /\ ~hy_out.b.isNone
     /\ hy_out.a.flags = hy_out.b.flags
     /\ hy_out.a.flags[hy_in.row]) =>
        LET fa == hy_out.a.features
            fb == hy_out.b.features
        IN  /\ fa.trade_direction = fb.trade_direction
            /\ fa.microstructure = fb.microstructure
            /\ RatioEq(fa.avg_time_between_trades, fb.avg_time_between_trades)
            /\ ~MeanBelow(fa.price_vwap_diff, fb.price_vwap_diff)
            /\ ~MeanBelow(fb.price_vwap_diff, fa.price_vwap_diff)

(***************************************************************************)
(* get_tick_data as a whole (lines 516-592): Tencent first, East Money     *)
(* second, the column check, the sort by time, the filters and the derived *)
(* columns; then the filter of analyze_stock_worker on the series it       *)
(* returned.  A provider answers by raising, with None, with an empty      *)
(* frame or with a frame of rows.                                          *)
(***************************************************************************)
TdLen == 21           \* the rows of a provider's frame

Raises == [kind |-> "raise", columns |-> FALSE, rows |-> <<>>]
ReturnsNone == [kind |-> "none", columns |-> FALSE, rows |-> <<>>]
EmptyFrame == [kind |-> "frame", columns |-> TRUE, rows |-> <<>>]
Frame(columns, rows) == [kind |-> "frame", columns |-> columns, rows |-> rows]

\* A rule that refuses only an exception (a variant for C23).
OnlyRaiseFails(answer) == answer.kind = "raise"

\* tick_df is None or tick_df.empty: the provider's answer is refused.
ProviderFailed(answer) == answer.kind # "frame" \/ answer.rows = <<>>

RECURSIVE PriceDiff(_, _)
\* tick_df['价格变动'] = tick_df['成交价'].diff().fillna(0), rows i..len.
PriceDiff(rows, i) ==
    IF i > Len(rows) THEN <<>>
    ELSE <<[rows[i] EXCEPT !.delta = IF i = 1 THEN 0 ELSE rows[i].price - rows[i - 1].price]>>
         \o PriceDiff(rows, i + 1)

\* The rows in the order they came (a variant for C21).
KeepOrder(rows) == rows

RECURSIVE InsertByTime(_, _)
InsertByTime(row, sorted) ==
    IF sorted = <<>> THEN <<row>>
    ELSE IF row.t < Head(sorted).t THEN <<row>> \o sorted
    ELSE <<Head(sorted)>> \o InsertByTime(row, Tail(sorted))

RECURSIVE SortByTime(_)
\* sort_values('时间'): the rows by time, rows of one time in the order they
\* came.
SortByTime(rows) ==
    IF rows = <<>> THEN <<>>
    ELSE InsertByTime(rows[Len(rows)], SortByTime(SubSeq(rows, 1, Len(rows) - 1)))

\* sort_values uses an unstable sort: two rows of one time may come out in
\* either order.
SortedOrders(rows) ==
    LET sorted == SortByTime(rows)
    IN  {sorted} \cup
        {[sorted EXCEPT ![k] = sorted[k + 1], ![k + 1] = sorted[k]] :
            k \in {j \in 1..(Len(sorted) - 1) : sorted[j].t = sorted[j + 1].t}}

RECURSIVE ResetIndex(_, _)
\* reset_index(drop=True): the rows labelled by their place, rows i..len.
ResetIndex(rows, i) ==
    IF i > Len(rows) THEN <<>>
    ELSE <<[rows[i] EXCEPT !.idx = i]>> \o ResetIndex(rows, i + 1)

RECURSIVE KeepTrades(_)
\* The rows on the buy or the sell side with a positive volume.
KeepTrades(rows) ==
    IF rows = <<>> THEN <<>>
    ELSE (IF Head(rows).side \in {"Buy", "Sell"} /\ Head(rows).vol > 0
          THEN <<Head(rows)>> ELSE <<>>) \o KeepTrades(Tail(rows))

\* What get_tick_data returns for the answers of the two providers, with the
\* providers it called; order is the outcome of the sort.
GetTickDataResult(tx, em, order) ==
    LET second == ProviderFailed(tx)
        calls == IF second THEN <<"tx", "em">> ELSE <<"tx">>
        source == IF ~second THEN "tx" ELSE IF ~ProviderFailed(em) THEN "em" ELSE "unknown"
        frame == IF ~second THEN tx ELSE Frame(em.columns, PriceDiff(em.rows, 1))
        kept == KeepTrades(ResetIndex(order, 1))
    IN  IF source = "unknown" \/ ~frame.columns \/ kept = <<>>
        THEN [pc |-> "returned", calls |-> calls, source |-> source, tick_df |-> NoneDf]
        ELSE [pc |-> "returned", calls |-> calls, source |-> source,
              tick_df |-> GetTickData(kept)]

\* The frame whose rows get_tick_data sorts.
ChosenRows(tx, em) == IF ~ProviderFailed(tx) THEN tx.rows ELSE PriceDiff(em.rows, 1)

\* The raw frames: a series with a cancelling pair at its head, as it is or
\* with rows k and k+1 exchanged, given one time, or row k on the neutral
\* side or without volume.
TdMarks == {"asis", "swapped", "tied", "neutral", "novolume"}
TdRows == {2, 10}

Marked(rows, k, mark) ==
    CASE mark = "asis" -> rows
      [] mark = "swapped" -> [rows EXCEPT ![k] = rows[k + 1], ![k + 1] = rows[k]]
      [] mark = "tied" -> [rows EXCEPT ![k + 1] = [@ EXCEPT !.t = rows[k].t]]
      [] mark = "neutral" -> [rows EXCEPT ![k] = [@ EXCEPT !.side = "Neutral"]]
      [] mark = "novolume" -> [rows EXCEPT ![k] = [@ EXCEPT !.vol = 0]]

TdSeries(price, drift) ==
    Fill([i \in 1..TdLen |->
             Shape(1, [vol |-> SpikeVol, side |-> "Buy", delta |-> 1],
                   [vol |-> NearVol, side |-> "Sell", delta |-> -1], FALSE, drift, i)],
         1, 2, 1, 0, price)

TxAnswers ==
    {Raises, ReturnsNone, EmptyFrame, Frame(FALSE, TdSeries(HyPrice, FALSE))} \cup
    {Frame(TRUE, Marked(TdSeries(HyPrice, drift), k, mark)) :
        drift \in BOOLEAN, k \in TdRows, mark \in TdMarks}

EmAnswers ==
    {Raises, EmptyFrame, Frame(FALSE, TdSeries(2 * HyPrice, FALSE)),
     Frame(TRUE, Marked(TdSeries(2 * HyPrice, FALSE), 10, "swapped"))}

TdInit ==
    /\ td_in \in [tx : TxAnswers, em : EmAnswers]
    /\ td_out = [pc |-> "idle", calls |-> <<>>, source |-> "unknown", tick_df |-> NoneDf]
    /\ td_clean = NoWashOut
    /\ ScoreIdle
    /\ DirIdle
    /\ WashIdle
    /\ BatchIdle
    /\ CacheIdle
    /\ AnIdle
    /\ SinkIdle
    /\ PoolIdle
    /\ ThIdle
    /\ HyIdle
    /\ LogIdle
    /\ MiIdle
    /\ RtIdle

\* One call of get_tick_data(symbol).
GetTickDataCall ==
    /\ td_out.pc = "idle"
    /\ \E order \in SortedOrders(ChosenRows(td_in.tx, td_in.em)) :
           td_out' = GetTickDataResult(td_in.tx, td_in.em, order)
    /\ UNCHANGED <<td_in, td_clean, scoreVars, dirVars, washVars, batchVars, cacheVars, anVars, sinkVars, poolVars, thVars, hyVars, logVars, miVars, rtVars>>

\* analyze_stock_worker filters the series get_tick_data returned (a symbol
\* without a series is not analysed).
WorkerFilter ==
    /\ td_out.pc = "returned"
    /\ ~td_out.tick_df.isNone
    /\ td_out' = [td_out EXCEPT !.pc = "filtered"]
    /\ td_clean' = FilterWashTrades(td_out.tick_df)
    /\ UNCHANGED <<td_in, scoreVars, dirVars, washVars, batchVars, cacheVars, anVars, sinkVars, poolVars, thVars, hyVars, logVars, miVars, rtVars>>

TdNext == GetTickDataCall \/ WorkerFilter

SpecTickData == TdInit /\ [][TdNext]_vars

RECURSIVE IsSubsequence(_, _)
\* a is b with some rows left out.
IsSubsequence(a, b) ==
    IF a = <<>> THEN TRUE
    ELSE IF b = <<>> THEN FALSE
    ELSE IF Head(a) = Head(b) THEN IsSubsequence(Tail(a), Tail(b))
    ELSE IsSubsequence(a, Tail(b))

(* C21: the series get_tick_data returns is in non-decreasing order of     *)
(* time, and the clean series of the filter is a subsequence of the series *)
(* it was given: the same rows, unaltered, in the same relative order.     *)
C21_OrderPreserved ==
    /\ (td_out # <<>> /\ td_out.pc # "idle" /\ ~td_out.tick_df.isNone) =>
          \A i \in 2..Len(td_out.tick_df.rows) :
              td_out.tick_df.rows[i - 1].t <= td_out.tick_df.rows[i].t
    /\ (td_out # <<>> /\ td_out.pc = "filtered") =>
          /\ ~td_clean.clean.isNone
          /\ IsSubsequence(td_clean.clean.rows, td_out.tick_df.rows)
          /\ \A i \in 1..Len(td_out.tick_df.rows) :
                td_clean.flags[i] =
                    (\A k \in 1..Len(td_clean.clean.rows) :
                         td_clean.clean.rows[k] # td_out.tick_df.rows[i])

\* A frame that came with two rows exchanged was returned in order of time,
\* and the filter took the cancelling pair out of it and kept the rest.
C21_Witness ==
    /\ td_out # <<>> /\ td_out.pc = "filtered"
    /\ \E i \in 2..Len(td_in.tx.rows) : td_in.tx.rows[i].t < td_in.tx.rows[i - 1].t
    /\ Len(td_out.tick_df.rows) = TdLen
    /\ td_clean.flags[1] /\ td_clean.flags[2]
    /\ td_clean.clean.rows = SubSeq(td_out.tick_df.rows, 3, TdLen)

(* C23: get_tick_data calls Tencent first and East Money only when Tencent *)
(* raises or returns no rows; the rows it returns all come from the first  *)
(* provider that answered with rows; when both fail it returns None.       *)
C23_ProvidersInOrder ==
    (td_out # <<>> /\ td_out.pc # "idle") =>
        LET txFails == td_in.tx.kind \in {"raise", "none"} \/ td_in.tx.rows = <<>>
            emFails == td_in.em.kind \in {"raise", "none"} \/ td_in.em.rows = <<>>
            from == IF ~txFails THEN td_in.tx.rows ELSE td_in.em.rows
        IN  /\ td_out.calls = IF txFails THEN <<"tx", "em">> ELSE <<"tx">>
            /\ (txFails /\ emFails) => td_out.tick_df.isNone
            /\ ~td_out.tick_df.isNone =>
                  /\ ~(txFails /\ emFails)
                  /\ td_out.source = IF ~txFails THEN "tx" ELSE "em"
                  /\ \A i \in 1..Len(td_out.tick_df.rows) :
                        \E j \in 1..Len(from) :
                            /\ from[j].t = td_out.tick_df.rows[i].t
                            /\ from[j].price = td_out.tick_df.rows[i].price
                            /\ from[j].vol = td_out.tick_df.rows[i].vol
                            /\ from[j].side = td_out.tick_df.rows[i].side

\* Tencent answered with an empty frame, East Money was called and its rows
\* were returned.
C23_Witness ==
    /\ td_out # <<>> /\ td_out.pc # "idle"
    /\ td_in.tx = EmptyFrame
    /\ td_out.calls = <<"tx", "em">>
    /\ td_out.source = "em"
    /\ ~td_out.tick_df.isNone
    /\ td_out.tick_df.rows[1].price = td_in.em.rows[1].price

\* Today's cache as the pass found it in the file.
TodaysCache(p) ==
    IF p.before.kind = "object" /\ p.before.date = p.day /\ p.before.data_ok
    THEN p.before.data ELSE {}

\* Today's cache as the file holds it now.
CachedNow(p) ==
    IF cache_file.kind = "object" /\ cache_file.date = p.day /\ cache_file.data_ok
    THEN cache_file.data ELSE {}

MaxLogWorkers == 2
MaxLogTasks == 2      \* tasks one worker thread runs
MaxElapsed == 2

LogWorkers == 1..MaxLogWorkers

LogInit ==
    /\ perf_shared = [counter |-> 0, reported |-> 0]
    /\ log_workers = [w \in LogWorkers |->
                         [pc |-> "task", elapsed |-> 0, loaded |-> 0, tasks |-> 0]]
    /\ ScoreIdle
    /\ DirIdle
    /\ WashIdle
    /\ BatchIdle
    /\ CacheIdle
    /\ AnIdle
    /\ SinkIdle
    /\ PoolIdle
    /\ ThIdle
    /\ HyIdle
    /\ TdIdle
    /\ MiIdle
    /\ RtIdle

\* The task of worker w calls _log_performance: elapsed = time.time() - start_time.
LogEnter(w, elapsed) ==
    /\ log_workers[w].pc = "task"
    /\ log_workers[w].tasks < MaxLogTasks
    /\ log_workers' = [log_workers EXCEPT ![w].pc = "called", ![w].elapsed = elapsed]
    /\ UNCHANGED <<perf_shared, scoreVars, dirVars, washVars, batchVars, cacheVars, anVars, sinkVars, poolVars, thVars, hyVars, tdVars, miVars, rtVars>>

\* self.perf_counters[task_name] is read.
LogLoad(w) ==
    /\ log_workers[w].pc = "called"
    /\ log_workers' = [log_workers EXCEPT ![w].pc = "loaded", ![w].loaded = perf_shared.counter]
    /\ UNCHANGED <<perf_shared, scoreVars, dirVars, washVars, batchVars, cacheVars, anVars, sinkVars, poolVars, thVars, hyVars, tdVars, miVars, rtVars>>

\* The sum is stored and _log_performance returns.
LogStore(w) ==
    /\ log_workers[w].pc = "loaded"
    /\ perf_shared' = [counter |-> log_workers[w].loaded + log_workers[w].elapsed,
                       reported |-> perf_shared.reported + log_workers[w].elapsed]
    /\ log_workers' = [log_workers EXCEPT ![w].pc = "task", ![w].tasks = @ + 1]
    /\ UNCHANGED <<scoreVars, dirVars, washVars, batchVars, cacheVars, anVars, sinkVars, poolVars, thVars, hyVars, tdVars, miVars, rtVars>>

LogNext ==
    \/ \E w \in LogWorkers, elapsed \in 1..MaxElapsed : LogEnter(w, elapsed)
    \/ \E w \in LogWorkers : LogLoad(w)
    \/ \E w \in LogWorkers : LogStore(w)

SpecPerf == LogInit /\ [][LogNext]_vars

(* C24: in the parallel phase no analyzer state is read, modified and      *)
(* written by two worker threads at once, so no update is lost: whenever   *)
(* no worker is inside _log_performance the counter is the sum of the      *)
(* times reported to it.                                                   *)
C24_NoLostUpdate ==
    (perf_shared # <<>> /\ \A w \in LogWorkers : log_workers[w].pc = "task") =>
        perf_shared.counter = perf_shared.reported

(***************************************************************************)
(* _calculate_score_v8 on metrics that vary the wash-trade ratio and the   *)
(* pressure ratio over a finer grid (hundredths), the other keys absent or *)
(* one of them extreme.                                                    *)
(***************************************************************************)
WashRatios == {0, 5, 10, 20, 30, 50, 100}
PressureRatios == {0, 50, 79, 80, 100, 120, 121, 200, 1000}

TermInputs ==
    {[k \in K |-> CASE k = "wash_trade_ratio" -> Num(f.w)
                    [] k = "pressure_ratio" -> Num(f.p)
                    [] OTHER -> f.o] :
        K \in SUBSET {"wash_trade_ratio", "pressure_ratio", "fund_flow_z_score"},
        f \in [w : WashRatios, p : PressureRatios, o : {NaN, Num(-Huge), Num(50)}]}

TermInit ==
    /\ metrics \in TermInputs
    /\ perf_counters = 0
    /\ score_calls = <<>>
    /\ DirIdle
    /\ WashIdle
    /\ BatchIdle
    /\ CacheIdle
    /\ AnIdle
    /\ SinkIdle
    /\ PoolIdle
    /\ ThIdle
    /\ HyIdle
    /\ TdIdle
    /\ LogIdle
    /\ MiIdle
    /\ RtIdle

SpecScoreTerms == TermInit /\ [][ScoreNext]_vars

\* The metrics without key k, and with key k set to v.
Without(m, k) == [x \in DOMAIN m \ {k} |-> m[x]]
With(m, k, v) == [x \in DOMAIN m \cup {k} |-> IF x = k THEN v ELSE m[x]]

\* The score is a number that the final clip left as it was.
Unclipped(x) == ~x.nan /\ ScoreMin < x.v /\ x.v < ScoreMax

\* No later score is above an earlier one; a NaN is above nothing.
NotAbove(later, earlier) == later.nan \/ earlier.nan \/ later.v <= earlier.v

(* C28 as stated: the wash-trade penalty taken off the score is            *)
(* clip(wash_trade_ratio * 35, 0, 10): the score is the score of the same  *)
(* metrics without wash trades less that penalty.                          *)
C28_PenaltyThirtyFiveUpToTen ==
    \A i \in 1..Len(score_calls) :
        LET clean == CalculateScoreV8(Without(metrics, "wash_trade_ratio"))
            w == Get(metrics, "wash_trade_ratio", Num(0))
        IN  (Unclipped(score_calls[i]) /\ Unclipped(clean)) =>
                clean.v - score_calls[i].v = Max(0, Min(10 * Point, w.v * 210))

(* C28, amended: the penalty taken off the score is                        *)
(* clip(wash_trade_ratio * 50, 0, 15): never negative, never above 15, and *)
(* with all other features fixed a larger wash_trade_ratio never gives a   *)
(* higher score.                                                           *)
C28_PenaltyFiftyUpToFifteen ==
    \A i \in 1..Len(score_calls) :
        LET clean == CalculateScoreV8(Without(metrics, "wash_trade_ratio"))
            w == Get(metrics, "wash_trade_ratio", Num(0))
        IN  /\ (Unclipped(score_calls[i]) /\ Unclipped(clean)) =>
                   /\ clean.v - score_calls[i].v = Max(0, Min(15 * Point, w.v * 300))
                   /\ clean.v - score_calls[i].v >= 0
                   /\ clean.v - score_calls[i].v <= 15 * Point
            /\ \A smaller \in {x \in WashRatios : x <= w.v} :
                   NotAbove(score_calls[i],
                            CalculateScoreV8(With(metrics, "wash_trade_ratio", Num(smaller))))

\* A ratio of 0.10 cost 5 points and a ratio of 0.50 would cost 15.
C28_Witness ==
    /\ Len(score_calls) >= 1
    /\ "wash_trade_ratio" \in DOMAIN metrics
    /\ metrics.wash_trade_ratio = Num(10)
    /\ Unclipped(score_calls[1])
    /\ CalculateScoreV8(Without(metrics, "wash_trade_ratio")).v - score_calls[1].v = 5 * Point
    /\ score_calls[1].v - CalculateScoreV8(With(metrics, "wash_trade_ratio", Num(50))).v
           = 10 * Point

(* C29: the pressure-ratio term of the score is 0 for every pressure_ratio *)
(* in [0.8, 1.2], positive above 1.2, negative below 0.8, and never above  *)
(* 20 in magnitude.                                                        *)
C29_PressureBand ==
    \A i \in 1..Len(score_calls) :
        LET neutral == CalculateScoreV8(Without(metrics, "pressure_ratio"))
            p == Get(metrics, "pressure_ratio", Num(100))
            term == score_calls[i].v - neutral.v
        IN  (Unclipped(score_calls[i]) /\ Unclipped(neutral)) =>
                /\ (80 <= p.v /\ p.v <= 120) => term = 0
                /\ p.v > 120 => term > 0
                /\ p.v < 80 => term < 0
                /\ Abs(term) <= 20 * Point

\* A pressure ratio of 1.20 added nothing to the score and 1.21 would add a
\* tenth of a point.
C29_Witness ==
    /\ Len(score_calls) >= 1
    /\ "pressure_ratio" \in DOMAIN metrics
    /\ metrics.pressure_ratio = Num(120)
    /\ Unclipped(score_calls[1])
    /\ score_calls[1] = CalculateScoreV8(Without(metrics, "pressure_ratio"))
    /\ CalculateScoreV8(With(metrics, "pressure_ratio", Num(121))).v - score_calls[1].v = 60

(***************************************************************************)
(* analyze_microstructure, the liquidity features: kyle_lambda (lines      *)
(* 912-921), price_reversal (974-981) and amihud_illiquidity (991-1008).   *)
(* A row is [t, price, vol, delta]: t in seconds since midnight, price in  *)
(* cents, delta the provider's price-change column, a number or NaN.       *)
(***************************************************************************)
ReversalMin == 20     \* price_reversal is computed when len(tick_df) > 20
AmihudMin == 10       \* amihud_illiquidity is computed when len(tick_df) > 10
MaxMicroLen == 22     \* the longest series
SessionStart == 34500 \* 09:35:00, the time before the first record
MicroPrice == 1000    \* the price before the first record

MicroLens == {1, AmihudMin, AmihudMin + 1, ReversalMin - 1, ReversalMin, ReversalMin + 1,
              MaxMicroLen}
DeltaPatterns == {"flat", "up", "zigzag", "mixed", "gap"}
VolPatterns == {"const", "vary"}
TimePatterns == {"burst", "hours", "spread"}

\* The price change of record i: "gap" is a zigzag whose first change is NaN.
DeltaAt(pattern, i) ==
    CASE pattern = "flat" -> Num(0)
      [] pattern = "up" -> Num(1)
      [] pattern = "zigzag" -> Num(IF i % 2 = 0 THEN 1 ELSE -1)
      [] pattern = "mixed" -> Num((i % 3) - 1)
      [] OTHER -> IF i = 1 THEN NaN ELSE Num(IF i % 2 = 0 THEN 1 ELSE -1)

VolAt(pattern, i) == IF pattern = "const" THEN 2 ELSE 1 + (i % 3)

\* "burst": one record a second; "hours": the second half of the series an
\* hour after the first; "spread": three records a minute.
TimeAt(pattern, i, n) ==
    CASE pattern = "burst" -> SessionStart + i
      [] pattern = "hours" -> IF i <= n \div 2 THEN SessionStart + i
                              ELSE SessionStart + 3600 + i
      [] OTHER -> SessionStart + 20 * i

RECURSIVE MicroRows(_, _, _, _, _, _)
\* Rows i..n of the series, the price following the changes.
MicroRows(dp, vp, tp, i, n, last_price) ==
    IF i > n THEN <<>>
    ELSE LET d == DeltaAt(dp, i)
             price == last_price + (IF d.nan THEN 0 ELSE d.v)
         IN  <<[t |-> TimeAt(tp, i, n), price |-> price, vol |-> VolAt(vp, i), delta |-> d]>>
             \o MicroRows(dp, vp, tp, i + 1, n, price)

MiInputs ==
    {MicroRows(dp, vp, tp, 1, n, MicroPrice) :
        dp \in DeltaPatterns, vp \in VolPatterns, tp \in TimePatterns, n \in MicroLens}

RECURSIVE SumAbsImpact(_, _)
\* The sum of |price_impact| in units of 1/L: price_impact is delta / volume,
\* NaN filled with 0 (lines 559-560).
SumAbsImpact(rows, L) ==
    IF rows = <<>> THEN 0
    ELSE (IF Head(rows).delta.nan THEN 0
          ELSE Abs(Head(rows).delta.v) * (L \div Head(rows).vol))
         + SumAbsImpact(Tail(rows), L)

\* avg_abs_impact = tick_df['price_impact'].abs().mean()
AvgAbsImpact(rows) ==
    LET L == VolLcm(rows) IN Ratio(SumAbsImpact(rows, L), L * Len(rows))

RECURSIVE FitSums(_)
\* The sums of a simple regression of delta on volume.
FitSums(rows) ==
    IF rows = <<>> THEN [x |-> 0, y |-> 0, xy |-> 0, xx |-> 0]
    ELSE LET r == Head(rows)
             rest == FitSums(Tail(rows))
         IN  [x |-> rest.x + r.vol, y |-> rest.y + r.delta.v,
              xy |-> rest.xy + r.vol * r.delta.v, xx |-> rest.xx + r.vol * r.vol]

\* LinearRegression().fit(X, y).coef_[0]: the fit raises on a NaN in y; it
\* gives the least-squares slope, and the minimum-norm slope 0 when the
\* centred X is all zero (every volume the same).
LinearRegressionFit(rows) ==
    IF \E i \in 1..Len(rows) : rows[i].delta.nan
    THEN [raised |-> TRUE, coef |-> Zero]
    ELSE LET f == FitSums(rows)
             n == Len(rows)
             sxx == n * f.xx - f.x * f.x
         IN  [raised |-> FALSE,
              coef |-> IF sxx = 0 THEN Zero ELSE Ratio(n * f.xy - f.x * f.y, sxx)]

\* try: kyle_lambda = model.coef_[0]  except: kyle_lambda = avg_abs_impact
KyleLambda(rows) ==
    LET fit == LinearRegressionFit(rows)
    IN  IF fit.raised THEN AvgAbsImpact(rows) ELSE fit.coef

Sgn(x) == IF x > 0 THEN 1 ELSE IF x < 0 THEN -1 ELSE 0

\* A correlation cov / sqrt(var2), kept as its sign and its square in lowest
\* terms, or NaN.
Corr(cov, var2) ==
    LET g == Gcd(cov * cov, var2)
    IN  [nan |-> FALSE, sign |-> Sgn(cov), sq |-> Ratio((cov * cov) \div g, var2 \div g)]
CorrNaN == [nan |-> TRUE, sign |-> 0, sq |-> Zero]
CorrZero == Corr(0, 1)
CorrNeg(c) == [nan |-> c.nan, sign |-> -c.sign, sq |-> c.sq]

RECURSIVE LagSums(_, _)
\* Over the records i..len whose change and whose previous change are both
\* numbers: their count and the sums of a (the change), b (the previous one).
LagSums(rows, i) ==
    IF i > Len(rows) THEN [m |-> 0, a |-> 0, b |-> 0, ab |-> 0, aa |-> 0, bb |-> 0]
    ELSE LET rest == LagSums(rows, i + 1)
             a == rows[i].delta
             b == rows[i - 1].delta
         IN  IF a.nan \/ b.nan THEN rest
             ELSE [m |-> rest.m + 1, a |-> rest.a + a.v, b |-> rest.b + b.v,
                   ab |-> rest.ab + a.v * b.v, aa |-> rest.aa + a.v * a.v,
                   bb |-> rest.bb + b.v * b.v]

\* price_changes.autocorr(lag=1): the Pearson correlation of the changes with
\* the changes shifted by one record, NaN when either has no variance.
Autocorr(rows) ==
    LET s == LagSums(rows, 2)
        va == s.m * s.aa - s.a * s.a
        vb == s.m * s.bb - s.b * s.b
    IN  IF va = 0 \/ vb = 0 THEN CorrNaN ELSE Corr(s.m * s.ab - s.a * s.b, va * vb)

\* len(tick_df) >= 20 (a variant for C26)
HasReversalFromMin(rows) == Len(rows) >= ReversalMin

\* len(tick_df) > 20
HasReversal(rows) == Len(rows) > ReversalMin

\* price_reversal = -price_autocorr, or 0 for a short series
PriceReversal(rows) == IF HasReversal(rows) THEN CorrNeg(Autocorr(rows)) ELSE CorrZero

\* tick_df['时间'].dt.minute: the minute of the hour, 0..59
MinuteOfHour(t) == (t \div 60) % 60

\* The minute of the day.
ClockMinute(t) == t \div 60

MinuteColumn(rows) == [i \in 1..Len(rows) |-> MinuteOfHour(rows[i].t)]
ClockMinuteColumn(rows) == [i \in 1..Len(rows) |-> ClockMinute(rows[i].t)]

RatioAdd(a, b) ==
    LET num == a.num * b.den + b.num * a.den
        den == a.den * b.den
        g == Gcd(Abs(num), den)
    IN  Ratio(num \div g, den \div g)

RECURSIVE AmihudValues(_, _, _)
\* For each group of the column that starts at a row i.. and has more than
\* one row: [sum of |last price - first price| / volume, count of groups].
AmihudValues(rows, column, i) ==
    IF i > Len(rows) THEN [sum |-> Zero, count |-> 0]
    ELSE LET rest == AmihudValues(rows, column, i + 1)
             group == {j \in 1..Len(rows) : column[j] = column[i]}
             first == CHOOSE j \in group : \A k \in group : j <= k
             last == CHOOSE j \in group : \A k \in group : j >= k
             volume == SumVol([j \in 1..(last - first + 1) |->
                                  IF (first + j - 1) \in group THEN rows[first + j - 1]
                                  ELSE [vol |-> 0]], 1, last - first + 1)
         IN  IF i = first /\ Cardinality(group) > 1 /\ volume > 0
             THEN [sum |-> RatioAdd(rest.sum,
                                    Ratio(Abs(rows[last].price - rows[first].price), volume)),
                   count |-> rest.count + 1]
             ELSE rest

\* np.mean(amihud_values) if amihud_values else 0, grouping by the column
AmihudOver(rows, column) ==
    LET values == AmihudValues(rows, column, 1)
    IN  IF values.count = 0 THEN Zero ELSE Ratio(values.sum.num, values.sum.den * values.count)

\* amihud_illiquidity: grouped by tick_df['minute'] when len(tick_df) > 10
AmihudIlliquidity(rows) ==
    IF Len(rows) > AmihudMin THEN AmihudOver(rows, MinuteColumn(rows)) ELSE Zero

MiInit ==
    /\ mi_in \in MiInputs
    /\ mi_out = <<>>
    /\ ScoreIdle
    /\ DirIdle
    /\ WashIdle
    /\ BatchIdle
    /\ CacheIdle
    /\ AnIdle
    /\ SinkIdle
    /\ PoolIdle
    /\ ThIdle
    /\ HyIdle
    /\ TdIdle
    /\ LogIdle
    /\ RtIdle

\* analyze_microstructure(tick_df) on a frame with rows.
MicrostructureCall ==
    /\ mi_out = <<>>
    /\ mi_out' = [avg_abs_impact |-> AvgAbsImpact(mi_in),
                  kyle_lambda |-> KyleLambda(mi_in),
                  price_reversal |-> PriceReversal(mi_in),
                  amihud_illiquidity |-> AmihudIlliquidity(mi_in)]
    /\ UNCHANGED mi_in
    /\ UNCHANGED <<scoreVars, dirVars, washVars, batchVars, cacheVars, anVars, sinkVars,
                   poolVars, thVars, hyVars, tdVars, logVars, rtVars>>

MiNext == MicrostructureCall

SpecMicro == MiInit /\ [][MiNext]_vars

\* Every record of the series has the same volume.
ConstantVolume(rows) == \A i \in 1..Len(rows) : rows[i].vol = rows[1].vol

(* C25: when the regression of price change on volume is degenerate, as    *)
(* when every record has the same volume, analyze_microstructure returns   *)
(* kyle_lambda equal to avg_abs_impact.                                    *)
C25_DegenerateFallsBack ==
    (mi_out # <<>> /\ ConstantVolume(mi_in)) =>
        RatioEq(mi_out.kyle_lambda, mi_out.avg_abs_impact)

(* C26 as stated: price_reversal is the default 0 exactly when the series  *)
(* has fewer than 20 records; from 20 records on it is the negated lag-1   *)
(* autocorrelation of the price changes.                                   *)
C26_ReversalFromTwentyRecords ==
    mi_out # <<>> =>
        /\ Len(mi_in) < ReversalMin => mi_out.price_reversal = CorrZero
        /\ Len(mi_in) >= ReversalMin =>
               mi_out.price_reversal = CorrNeg(Autocorr(mi_in))

(* C26, amended: price_reversal is the default 0 whenever the series has   *)
(* 20 records or fewer; for more than 20 records it is the negated lag-1   *)
(* autocorrelation of the price changes, which is NaN when the changes     *)
(* have no variance.                                                       *)
C26_ReversalAboveTwentyRecords ==
    mi_out # <<>> =>
        /\ Len(mi_in) <= ReversalMin => mi_out.price_reversal = CorrZero
        /\ Len(mi_in) > ReversalMin =>
               mi_out.price_reversal = CorrNeg(Autocorr(mi_in))

\* A series of exactly 20 records whose changes alternate got the default 0,
\* not the reversal of 1 that its changes have.
C26_Witness ==
    /\ mi_out # <<>>
    /\ Len(mi_in) = ReversalMin
    /\ CorrNeg(Autocorr(mi_in)) = Corr(1, 1)
    /\ mi_out.price_reversal = CorrZero

(* C27: amihud_illiquidity is the mean over distinct 1-minute intervals of *)
(* the session: two records are in the same bucket only if they are in the *)
(* same clock minute of the same hour.                                     *)
C27_BucketsAreClockMinutes ==
    (mi_out # <<>> /\ Len(mi_in) > AmihudMin) =>
        RatioEq(mi_out.amihud_illiquidity, AmihudOver(mi_in, ClockMinuteColumn(mi_in)))

(***************************************************************************)
(* _retry(func, retries, base_delay, jitter): the loop of attempts.  func  *)
(* returns a value, raises an Exception, or raises something that is not   *)
(* an Exception (KeyboardInterrupt), which except Exception lets through.  *)
(* Delays are in units of jitter / MaxJitter; the draw of                  *)
(* random.uniform(0, jitter) is any whole number of units up to the bound. *)
(***************************************************************************)
MaxRetries == 3       \* the largest retries argument
MaxBaseDelay == 2     \* the largest base_delay argument
MaxJitter == 1        \* the largest jitter argument

RetryValues == {"v1", "v2"}
RetryErrors == {"e1", "e2"}

RECURSIVE Pow2(_)
Pow2(k) == IF k = 0 THEN 1 ELSE 2 * Pow2(k - 1)

\* A delay that grows by base_delay each attempt (a variant for C30).
LinearBackoff(base_delay, attempt) == base_delay * (attempt + 1)

\* base_delay * (2 ** attempt)
Backoff(base_delay, attempt) == base_delay * Pow2(attempt)

RtInit ==
    /\ rt_in \in [retries : 0..MaxRetries, base_delay : 1..MaxBaseDelay, jitter : 0..MaxJitter]
    /\ rt = [pc |-> "loop", attempt |-> 0, last_err |-> "None", calls |-> <<>>,
             sleeps |-> <<>>, outcome |-> "None"]
    /\ ScoreIdle
    /\ DirIdle
    /\ WashIdle
    /\ BatchIdle
    /\ CacheIdle
    /\ AnIdle
    /\ SinkIdle
    /\ PoolIdle
    /\ ThIdle
    /\ HyIdle
    /\ TdIdle
    /\ LogIdle
    /\ MiIdle

RtOthers == <<scoreVars, dirVars, washVars, batchVars, cacheVars, anVars, sinkVars,
              poolVars, thVars, hyVars, tdVars, logVars, miVars>>

\* while attempt < retries: return func(*args, **kwargs)
RetryReturn(value) ==
    /\ rt.pc = "loop"
    /\ rt.attempt < rt_in.retries
    /\ rt' = [rt EXCEPT !.pc = "returned",
                        !.calls = Append(@, [kind |-> "value", what |-> value]),
                        !.outcome = value]
    /\ UNCHANGED rt_in
    /\ UNCHANGED RtOthers

\* except Exception as e: last_err = e; wait = ...; time.sleep(wait);
\* attempt += 1
RetryFailure(e, drawn) ==
    /\ rt.pc = "loop"
    /\ rt.attempt < rt_in.retries
    /\ drawn <= rt_in.jitter
    /\ rt' = [rt EXCEPT !.last_err = e,
                        !.calls = Append(@, [kind |-> "Exception", what |-> e]),
                        !.sleeps = Append(@, Backoff(rt_in.base_delay, rt.attempt) + drawn),
                        !.attempt = @ + 1]
    /\ UNCHANGED rt_in
    /\ UNCHANGED RtOthers

\* func raises what except Exception does not catch: it leaves _retry.
RetryInterrupted ==
    /\ rt.pc = "loop"
    /\ rt.attempt < rt_in.retries
    /\ rt' = [rt EXCEPT !.pc = "raised",
                        !.calls = Append(@, [kind |-> "BaseException",
                                             what |-> "KeyboardInterrupt"]),
                        !.outcome = "KeyboardInterrupt"]
    /\ UNCHANGED rt_in
    /\ UNCHANGED RtOthers

\* raise last_err after the loop; raise None is a TypeError.
RetryRaise ==
    /\ rt.pc = "loop"
    /\ rt.attempt >= rt_in.retries
    /\ rt' = [rt EXCEPT !.pc = "raised",
                        !.outcome = IF rt.last_err = "None" THEN "TypeError" ELSE rt.last_err]
    /\ UNCHANGED rt_in
    /\ UNCHANGED RtOthers

RtNext ==
    \/ \E value \in RetryValues : RetryReturn(value)
    \/ \E e \in RetryErrors, drawn \in 0..MaxJitter : RetryFailure(e, drawn)
    \/ RetryInterrupted
    \/ RetryRaise

SpecRetry == RtInit /\ [][RtNext]_vars

(* C30: _retry(func, retries=n) calls func at most n times; it returns the *)
(* result of the first call that succeeds and calls func no more; if all n *)
(* calls raise it raises the exception of the last attempt; the delay      *)
(* after the failure of attempt k (counted from 0) is base_delay * 2^k     *)
(* plus a jitter between 0 and the jitter bound.                           *)
C30_RetryContract ==
    rt # <<>> =>
        LET n == rt_in.retries
            made == Len(rt.calls)
        IN  /\ made <= n
            /\ \A i \in 1..(made - 1) : rt.calls[i].kind = "Exception"
            /\ rt.pc = "returned" =>
                   /\ rt.calls[made].kind = "value"
                   /\ rt.outcome = rt.calls[made].what
            /\ (made >= 1 /\ rt.calls[made].kind = "value") => rt.pc = "returned"
            /\ (rt.pc = "raised" /\ made = n /\ n >= 1
                    /\ rt.calls[made].kind = "Exception") =>
                   rt.outcome = rt.calls[made].what
            /\ rt.pc = "raised" =>
                   \/ made = n /\ \A i \in 1..made : rt.calls[i].kind = "Exception"
                   \/ made >= 1 /\ rt.calls[made].kind = "BaseException"
            /\ Len(rt.sleeps) = Cardinality({i \in 1..made : rt.calls[i].kind = "Exception"})
            /\ \A k \in 1..Len(rt.sleeps) :
                   /\ rt.sleeps[k] >= rt_in.base_delay * Pow2(k - 1)
                   /\ rt.sleeps[k] <= rt_in.base_delay * Pow2(k - 1) + rt_in.jitter

\* Three attempts raised e1, e2, e1 and the call raised e1 after sleeping
\* 2, 4 and 8 units plus a jitter.
C30_Witness ==
    /\ rt # <<>>
    /\ rt_in.retries = 3
    /\ rt_in.base_delay = 2
    /\ rt_in.jitter = 1
    /\ rt.pc = "raised"
    /\ rt.calls = <<[kind |-> "Exception", what |-> "e1"],
                    [kind |-> "Exception", what |-> "e2"],
                    [kind |-> "Exception", what |-> "e1"]>>
    /\ rt.outcome = "e1"
    /\ rt.sleeps = <<2, 5, 8>>

=============================================================================
